---- MODULE Spec2Model ----
(***************************************************************************)
(* Terminal protocol snapshot capture (issue26-terminal-protocol-snapshot) *)
(* as a state machine: main() and capture_snapshot() step by step, the     *)
(* terminal as the environment, and the escape-sequence decoders as        *)
(* operators over byte sequences.                                          *)
(*                                                                         *)
(* Bytes are one-character strings, "ESC" stands for 0x1b. Time is in      *)
(* milliseconds.                                                           *)
(***************************************************************************)
EXTENDS Integers, Sequences, FiniteSets, TLC

VARIABLES
  \* ---- inputs of one invocation (never change after Init)
  argModes,      \* --modes, the raw characters
  argPerQuery,   \* --per-query-timeout-ms
  argKitty,      \* --kitty-timeout-ms
  envTerm,       \* os.environ["TERM"], characters
  readIsTty,     \* os.isatty(stdin)
  writeIsTty,    \* os.isatty(stdout)
  entryAttr,     \* terminal attributes when the process starts
  entryNonblock, \* O_NONBLOCK of the read descriptor when the process starts
  \* ---- the terminal
  termAttr,      \* current terminal attributes
  fdNonblock,    \* current O_NONBLOCK of the read descriptor
  wire,          \* every byte written to the write descriptor, in order
  ioRead,        \* some os.read was issued on the read descriptor
  now,           \* time.monotonic(), ms since the process started
  stalls,        \* how often a write was refused so far
  shortWrites,   \* how often a write was taken only in part so far
  delivered,     \* how many chunks the terminal has answered so far
  heard,         \* the chunks delivered to the capture, each with the window it was read in; dropped when the capture fails
  unread,        \* the terminal's answers to the queries that lie in the input queue of the tty, not taken by any read
  \* ---- main() and capture_snapshot()
  pc,            \* position in the code
  modes,         \* parse_mode_list(args.modes)
  old_term,      \* capture_snapshot: old_term
  old_flags,     \* capture_snapshot: old_flags (the O_NONBLOCK bit)
  flushIter,     \* flush_pending_input: reads done
  idx,           \* 1..Len(modes): mode query, Len(modes)+1: keyboard query
  offset,        \* send_sequence: offset
  deadline,      \* read_available: deadline
  chunks,        \* read_available: chunks
  winOpenedAt,   \* when the current read window opened
  windowsClosed, \* read windows that have closed
  lastClose,     \* how the last read window closed
  decrqm_chunks, \* capture_snapshot: decrqm_chunks
  kitty_chunks,  \* capture_snapshot: kitty_chunks
  pending,       \* the exception in flight or handled last
  snapshot,      \* main: snapshot
  output,        \* the file at args.output
  exitCode,      \* the process's exit code
  \* ---- the codec applied to a buffer on its own
  dSrc,          \* what the buffer was put together from
  dBuf,          \* the buffer
  dResult,       \* what the decoders returned for it
  \* ---- issue26-manual-analyze.py applied to its inputs
  sSrc,          \* the flags the two line-discipline reports were written from
  sA,            \* a line-discipline report, as text
  sB,            \* another line-discipline report, as text
  sOut,          \* summarize_stty_diff of the two, in both orders
  pBefore,       \* load_optional_json(protocol.before.json)
  pAfter,        \* load_optional_json(protocol.after.json)
  pOut,          \* summarize_protocol_diff of the two
  tSession,      \* the lines of session.typescript
  vOut,          \* build_summary of the inputs
  \* ---- issue26-macos-keydriver.py: main() from the probe loop on
  kArgs,         \* --probe-inject-mode, the resolved tty path, --probe-send-retries, --probe-timeout
  kPc,           \* position in the code
  kStep,         \* index into marker_steps
  kAttempt,      \* send_probe_with_confirmation: attempt
  kSession,      \* the markers the runner has written to the session file
  kSent,         \* the probe key events delivered so far, in order
  kExit,         \* what main returned
  \* ---- issue26-pty-probe.py: run_scenario()
  rScenario,     \* scenario_name
  rPc,           \* position in the code
  rStep,         \* index into steps or into the probe sequence, and into the submit keys of a line step
  rClosed,       \* runner.closed
  rTranscript,   \* the tokens in runner.transcript
  rErrors,       \* errors
  rSends,        \* what each send_bytes call found, did and returned, in order
  rChild,        \* the child process
  rExit,         \* exit_code
  rResult        \* result["status"], or how run_scenario was left

inputVars == <<argModes, argPerQuery, argKitty, envTerm, readIsTty, writeIsTty, entryAttr, entryNonblock>>

ttyVars == <<termAttr, fdNonblock, wire, ioRead, now, stalls, shortWrites, delivered, heard>>

queueVars == <<unread>>

locals == <<old_term, old_flags, flushIter, idx, offset, deadline, chunks, winOpenedAt, lastClose, decrqm_chunks, kitty_chunks>>

codeVars == <<pc, modes, locals, windowsClosed, pending, snapshot, output, exitCode>>

codecVars == <<dSrc, dBuf, dResult>>

sttyVars == <<sSrc, sA, sB, sOut>>

protoVars == <<pBefore, pAfter, pOut>>

verdictVars == <<tSession, vOut>>

analyzeVars == <<sttyVars, protoVars, verdictVars>>

keyVars == <<kArgs, kPc, kStep, kAttempt, kSession, kSent, kExit>>

ptyVars == <<rScenario, rPc, rStep, rClosed, rTranscript, rErrors, rSends, rChild, rExit, rResult>>

driverVars == <<keyVars, ptyVars>>

vars == <<inputVars, ttyVars, queueVars, codeVars, codecVars, analyzeVars, driverVars>>

----------------------------------------------------------------------------
\* Bounds of the model.

\* The terminal refuses a write at most this often in one run.
MaxStalls == 1

\* The terminal takes a write only in part at most this often in one run.
MaxShortWrites == 1

\* The terminal answers with at most this many chunks in one run.
MaxChunks == 2

\* A decoder input is the concatenation of at most this many fragments.
MaxFrags == 3

\* the longest list of modes a synthetic terminal is asked about
MaxSynth == 3

\* A line-discipline report says at most this many words about the flags.
MaxWords == 2

\* A protocol snapshot reports at most this many modes.
MaxSnapshotModes == 2

\* A transcript holds at most this many lines besides those of the key probes.
MaxExtras == 1

\* Time that passes while one write is refused.
WriteStallMs == 20

----------------------------------------------------------------------------
\* Program constants.

\* flush_pending_input: for _ in range(8)
FlushIterations == 8

\* read_available: select(..., min(remaining, 0.02))
SelectSliceMs == 20

\* main: max(1, args.per_query_timeout_ms)
MinTimeoutMs == 1

Min(a, b) == IF a <= b THEN a ELSE b

Max(a, b) == IF a >= b THEN a ELSE b

RECURSIVE Join(_)
\* b"".join(list)
Join(list) == IF list = <<>> THEN <<>> ELSE Head(list) \o Join(Tail(list))

----------------------------------------------------------------------------
\* Escape-sequence codec.

Digits == {"0", "1", "2", "3", "4", "5", "6", "7", "8", "9"}

DigitVal(c) == CASE c = "0" -> 0 [] c = "1" -> 1 [] c = "2" -> 2 [] c = "3" -> 3 [] c = "4" -> 4
                 [] c = "5" -> 5 [] c = "6" -> 6 [] c = "7" -> 7 [] c = "8" -> 8 [] c = "9" -> 9

DigitChar(d) == CASE d = 0 -> "0" [] d = 1 -> "1" [] d = 2 -> "2" [] d = 3 -> "3" [] d = 4 -> "4"
                  [] d = 5 -> "5" [] d = 6 -> "6" [] d = 7 -> "7" [] d = 8 -> "8" [] d = 9 -> "9"

\* sys.int_info.default_max_str_digits: int(text) raises ValueError for a longer run of digits
IntMaxStrDigits == 4300

\* one element of a buffer that stands for IntMaxStrDigits + 1 consecutive bytes "9"
LongDigitRun == "9 x 4301"

\* the bytes \d matches
DigitBytes == Digits \cup {LongDigitRun}

RECURSIVE DigitCount(_)
\* len(text) for a run of digits
DigitCount(ds) == IF ds = <<>> THEN 0 ELSE (IF Head(ds) = LongDigitRun THEN IntMaxStrDigits + 1 ELSE 1) + DigitCount(Tail(ds))

\* int(text) raises ValueError
IntRaises(ds) == DigitCount(ds) > IntMaxStrDigits

RECURSIVE IntOf(_)
\* int(text) for a non-empty run of ASCII digits
IntOf(ds) == IF ds = <<>> THEN 0 ELSE 10 * IntOf(SubSeq(ds, 1, Len(ds) - 1)) + DigitVal(ds[Len(ds)])

RECURSIVE StrOf(_)
\* str(n), n >= 0: f"{mode}"
StrOf(n) == IF n < 10 THEN <<DigitChar(n)>> ELSE StrOf(n \div 10) \o <<DigitChar(n % 10)>>

\* query = f"\x1b[?{mode}$p".encode("ascii")
EncodeModeQuery(mode) == <<"ESC", "[", "?">> \o StrOf(mode) \o <<"$", "p">>

\* b"\x1b[?u"
KittyQuery == <<"ESC", "[", "?", "u">>

RECURSIVE RunEnd(_, _, _)
\* one past the longest run of bytes of class cls that starts at i
RunEnd(raw, i, cls) == IF i <= Len(raw) /\ raw[i] \in cls THEN RunEnd(raw, i + 1, cls) ELSE i

NoMatch == [ok |-> FALSE]

\* a pattern that also takes the query form: the value is optional, the final byte is y or p
DecrpmMatchAtQueryForm(raw, i) ==
  LET a == i + 3
      b == RunEnd(raw, a, DigitBytes)
      c == IF b <= Len(raw) /\ raw[b] = ";" THEN b + 1 ELSE b
      d == RunEnd(raw, c, DigitBytes)
  IN IF /\ i + 2 <= Len(raw)
        /\ raw[i] = "ESC" /\ raw[i + 1] = "[" /\ raw[i + 2] = "?"
        /\ b > a
        /\ d + 1 <= Len(raw) /\ raw[d] = "$" /\ raw[d + 1] \in {"y", "p"}
     THEN [ok |-> TRUE, mode |-> SubSeq(raw, a, b - 1), value |-> IF d > c THEN SubSeq(raw, c, d - 1) ELSE <<"0">>, next |-> d + 2]
     ELSE NoMatch

\* DECRPM_RE = rb"\x1b\[\?(\d+);(\d+)\$y" tried at position i
DecrpmMatchAt(raw, i) ==
  LET a == i + 3
      b == RunEnd(raw, a, DigitBytes)
      c == b + 1
      d == RunEnd(raw, c, DigitBytes)
  IN IF /\ i + 2 <= Len(raw)
        /\ raw[i] = "ESC" /\ raw[i + 1] = "[" /\ raw[i + 2] = "?"
        /\ b > a /\ b <= Len(raw) /\ raw[b] = ";"
        /\ d > c /\ d + 1 <= Len(raw) /\ raw[d] = "$" /\ raw[d + 1] = "y"
     THEN [ok |-> TRUE, mode |-> SubSeq(raw, a, b - 1), value |-> SubSeq(raw, c, d - 1), next |-> d + 2]
     ELSE NoMatch

RECURSIVE DecrpmFindAll(_, _)
\* DECRPM_RE.findall(raw): the (mode, value) groups of the non-overlapping matches, left to right
DecrpmFindAll(raw, i) ==
  IF i > Len(raw) THEN <<>>
  ELSE LET m == DecrpmMatchAt(raw, i)
       IN IF m.ok THEN <<[mode |-> m.mode, value |-> m.value]>> \o DecrpmFindAll(raw, m.next)
          ELSE DecrpmFindAll(raw, i + 1)

\* a label table that knows set and reset only
DecrpmStateLabelSetResetOnly(value) ==
  CASE value = 1 -> "set"
    [] value = 2 -> "reset"
    [] OTHER -> "unknown"

\* DECRPM_STATE_LABEL.get(value, "unknown")
DECRPM_STATE_LABEL(value) ==
  CASE value = 0 -> "not_recognized"
    [] value = 1 -> "set"
    [] value = 2 -> "reset"
    [] value = 3 -> "permanently_set"
    [] value = 4 -> "permanently_reset"
    [] OTHER -> "unknown"

\* by_mode[mode] = {...}: the key is the decoded text of the mode field
DictSet(d, key, entry) == [k \in DOMAIN d \cup {key} |-> IF k = key THEN entry ELSE d[k]]

EmptyDict == [k \in {} |-> 0]

RECURSIVE DecrqmFold(_, _)
DecrqmFold(matches, by_mode) ==
  IF matches = <<>> THEN by_mode
  ELSE LET value == IntOf(Head(matches).value)
       IN DecrqmFold(Tail(matches), DictSet(by_mode, Head(matches).mode, [value |-> value, state |-> DECRPM_STATE_LABEL(value)]))

parse_decrqm_responses(raw) == DecrqmFold(DecrpmFindAll(raw, 1), EmptyDict)

\* value = int(...) raises for some match: parse_decrqm_responses returns nothing
parse_decrqm_raises(raw) == \E m \in {DecrpmFindAll(raw, 1)[i] : i \in DOMAIN DecrpmFindAll(raw, 1)} : IntRaises(m.value)

KittyClass == DigitBytes \cup {":", ";"}

\* KITTY_RE = rb"\x1b\[\?([0-9:;]+)u" tried at position i
KittyMatchAt(raw, i) ==
  LET a == i + 3
      b == RunEnd(raw, a, KittyClass)
  IN IF /\ i + 2 <= Len(raw)
        /\ raw[i] = "ESC" /\ raw[i + 1] = "[" /\ raw[i + 2] = "?"
        /\ b > a /\ b <= Len(raw) /\ raw[b] = "u"
     THEN [ok |-> TRUE, token |-> SubSeq(raw, a, b - 1), next |-> b + 1]
     ELSE NoMatch

RECURSIVE KittyFindAll(_, _)
KittyFindAll(raw, i) ==
  IF i > Len(raw) THEN <<>>
  ELSE LET m == KittyMatchAt(raw, i)
       IN IF m.ok THEN <<m.token>> \o KittyFindAll(raw, m.next)
          ELSE KittyFindAll(raw, i + 1)

\* Python's None and a present value, for an optional field
Nothing == <<>>

Some(x) == <<x>>

\* a decoder that reports the first match as current
ParseKittyFirstIsCurrent(raw) ==
  LET values == KittyFindAll(raw, 1)
  IN [responses |-> values, current |-> IF values # <<>> THEN Some(values[1]) ELSE Nothing]

parse_kitty_response(raw) ==
  LET values == KittyFindAll(raw, 1)
  IN [responses |-> values, current |-> IF values # <<>> THEN Some(values[Len(values)]) ELSE Nothing]

----------------------------------------------------------------------------
\* Argument and environment handling of main().

Whitespace == {" "}

RECURSIVE SplitComma(_, _)
\* raw.split(","): cur is the token collected so far
SplitComma(raw, cur) ==
  IF raw = <<>> THEN <<cur>>
  ELSE IF Head(raw) = "," THEN <<cur>> \o SplitComma(Tail(raw), <<>>)
  ELSE SplitComma(Tail(raw), Append(cur, Head(raw)))

RECURSIVE LStrip(_)
LStrip(t) == IF t # <<>> /\ Head(t) \in Whitespace THEN LStrip(Tail(t)) ELSE t

RECURSIVE RStrip(_)
RStrip(t) == IF t # <<>> /\ t[Len(t)] \in Whitespace THEN RStrip(SubSeq(t, 1, Len(t) - 1)) ELSE t

\* token.strip()
Strip(t) == RStrip(LStrip(t))

\* int(value) succeeds on the tokens of the model exactly when they are runs of digits
IsInt(t) == t # <<>> /\ \A i \in 1..Len(t) : t[i] \in Digits

RECURSIVE ModeTokens(_)
\* the loop of parse_mode_list over the tokens: ok = FALSE when int() raises ValueError
ModeTokens(tokens) ==
  IF tokens = <<>> THEN [ok |-> TRUE, modes |-> <<>>]
  ELSE LET value == Strip(Head(tokens))
           rest == ModeTokens(Tail(tokens))
       IN IF value = <<>> THEN rest
          ELSE IF ~IsInt(value) THEN [ok |-> FALSE, modes |-> <<>>]
          ELSE [ok |-> rest.ok, modes |-> IF rest.ok THEN <<IntOf(value)>> \o rest.modes ELSE <<>>]

parse_mode_list(raw) == ModeTokens(SplitComma(raw, <<>>))

LowerAlphabet == <<"a", "b", "c", "d", "e", "f", "g", "h", "i", "j", "k", "l", "m", "n", "o", "p", "q", "r", "s", "t", "u", "v", "w", "x", "y", "z">>

UpperAlphabet == <<"A", "B", "C", "D", "E", "F", "G", "H", "I", "J", "K", "L", "M", "N", "O", "P", "Q", "R", "S", "T", "U", "V", "W", "X", "Y", "Z">>

LowerChar(c) == IF \E i \in 1..26 : UpperAlphabet[i] = c THEN LowerAlphabet[CHOOSE i \in 1..26 : UpperAlphabet[i] = c] ELSE c

\* term_name.lower()
Lower(t) == [i \in 1..Len(t) |-> LowerChar(t[i])]

\* the comparison of main without .lower()
IsUnsupportedTermCaseSensitive(term_name) == term_name \in {<<>>, <<"d", "u", "m", "b">>}

\* term_name.lower() in {"", "dumb"}
IsUnsupportedTerm(term_name) == Lower(term_name) \in {<<>>, <<"d", "u", "m", "b">>}

\* max(1, args.per_query_timeout_ms)
PerQueryTimeout == Max(MinTimeoutMs, argPerQuery)

\* max(1, args.kitty_timeout_ms)
KittyTimeout == Max(MinTimeoutMs, argKitty)

----------------------------------------------------------------------------
\* Inputs of the model.

ArgModesChoices ==
  { <<>>,
    <<"1">>,
    <<" ", "2", " ", ",", ",", "0", "1">>,
    <<"1", ",", "x">> }

ArgPerQueryChoices == {30}

ArgKittyChoices == {0}

EnvTermChoices ==
  { <<>>,
    <<"d", "u", "m", "b">>,
    <<"D", "u", "m", "b">>,
    <<"x", "t", "e", "r", "m">> }

EntryTtyChoices == {[attr |-> "custom", nonblock |-> FALSE]}

\* what one os.read may return: the two halves of a mode report, or a keyboard-protocol response
TermChunks ==
  { <<"ESC", "[", "?", "1", ";">>,
    <<"2", "$", "y">>,
    <<"ESC", "[", "?", "1", "u">>,
    <<"ESC", "[", "?", "3", "u">> }

NoException == [type |-> "none", msg |-> "", where |-> "none"]

\* snapshot = {"generated_at": ..., "tag": ...}: no status key yet
NewSnapshot ==
  [status |-> "unset", error |-> "", requested_modes |-> <<>>, by_mode |-> EmptyDict,
   response_count |-> 0, responses |-> <<>>, current |-> Nothing]

\* nothing at args.output
NoFile == [NewSnapshot EXCEPT !.status = "no file"]

\* the codec specification is not running
NoSource == [kind |-> "none", items |-> <<>>]

NoClose == [idx |-> 0, opened |-> 0, at |-> 0, why |-> "none", timeout |-> 0]

----------------------------------------------------------------------------
\* main() and capture_snapshot(), one action per step.

RaiseAt(type, msg, where) == [type |-> type, msg |-> msg, where |-> where]

\* the query written for loop index i: the modes in order, then the keyboard query
Query(i) == IF i <= Len(modes) THEN EncodeModeQuery(modes[i]) ELSE KittyQuery

\* the timeout handed to read_available after query i
WindowTimeout(i) == IF i <= Len(modes) THEN PerQueryTimeout ELSE KittyTimeout

\* one deadline for the whole capture, counted from its start
WindowDeadlineShared(t, timeout_ms) == timeout_ms

\* deadline = time.monotonic() + (timeout_ms / 1000.0)
WindowDeadline(t, timeout_ms) == t + timeout_ms

\* the loop skipping every other query
NextQueryIndexSkipping(i) == i + 2

\* for mode in modes: ..., then the keyboard query
NextQueryIndex(i) == i + 1

\* only stdin is checked
TtyPreconditionReadOnly == IF ~readIsTty THEN "stdin is not a tty" ELSE "ok"

\* if not os.isatty(read_fd): raise ...; if not os.isatty(write_fd): raise ...
TtyPrecondition ==
  IF ~readIsTty THEN "stdin is not a tty"
  ELSE IF ~writeIsTty THEN "stdout is not a tty"
  ELSE "ok"

\* except RuntimeError
CaughtRuntimeErrorOnly(type) == type = "RuntimeError"

\* except Exception
Caught(type) == type \in {"RuntimeError", "OSError", "termios.error", "ValueError"}

\* return 0 if snapshot.get("status") in {"ok", "skipped_unsupported_term"} else 1
ExitCodeOf(status) == IF status \in {"ok", "skipped_unsupported_term"} THEN 0 ELSE 1

\* the frame of capture_snapshot is gone: its locals, and the bookkeeping of its windows, end with it
LeaveCapture ==
  /\ old_term' = "unset"
  /\ old_flags' = FALSE
  /\ flushIter' = 0
  /\ idx' = 1
  /\ offset' = 0
  /\ deadline' = 0
  /\ chunks' = <<>>
  /\ winOpenedAt' = 0
  /\ lastClose' = NoClose
  /\ decrqm_chunks' = <<>>
  /\ kitty_chunks' = <<>>

\* the key driver is not run
KeyIdle ==
  /\ kArgs = [probe_inject_mode |-> "none", tty_path |-> FALSE, probe_send_retries |-> 0, probe_timeout |-> 0]
  /\ kPc = "idle"
  /\ kStep = 1
  /\ kAttempt = 1
  /\ kSession = {}
  /\ kSent = <<>>
  /\ kExit = -1

\* the PTY probe is not run
PtyIdle ==
  /\ rScenario = "none"
  /\ rPc = "idle"
  /\ rStep = [step |-> 1, key |-> 0]
  /\ rClosed = FALSE
  /\ rTranscript = {}
  /\ rErrors = <<>>
  /\ rSends = <<>>
  /\ rChild = "none"
  /\ rExit = Nothing
  /\ rResult = "none"

DriversIdle == KeyIdle /\ PtyIdle

\* the decoders are not run on their own
CodecIdle ==
  /\ dSrc = NoSource
  /\ dBuf = <<>>
  /\ dResult = [done |-> FALSE, error |-> "none"]

\* the analyzer is not run
SttyIdle ==
  /\ sSrc = NoSource
  /\ sA = <<>>
  /\ sB = <<>>
  /\ sOut = [done |-> FALSE]

ProtoIdle ==
  /\ pBefore = NoSource
  /\ pAfter = NoSource
  /\ pOut = [done |-> FALSE]

VerdictIdle ==
  /\ tSession = <<>>
  /\ vOut = [done |-> FALSE]

AnalyzeIdle == SttyIdle /\ ProtoIdle /\ VerdictIdle

InitMain ==
  /\ argModes \in ArgModesChoices
  /\ argPerQuery \in ArgPerQueryChoices
  /\ argKitty \in ArgKittyChoices
  /\ envTerm \in EnvTermChoices
  /\ readIsTty \in BOOLEAN
  /\ writeIsTty \in BOOLEAN
  /\ \E e \in EntryTtyChoices : entryAttr = e.attr /\ entryNonblock = e.nonblock
  /\ termAttr = entryAttr
  /\ fdNonblock = entryNonblock
  /\ wire = <<>>
  /\ ioRead = FALSE
  /\ now = 0
  /\ stalls = 0
  /\ shortWrites = 0
  /\ delivered = 0
  /\ heard = <<>>
  /\ unread = <<>>
  /\ pc = "main"
  /\ modes = <<>>
  /\ old_term = "unset"
  /\ old_flags = FALSE
  /\ flushIter = 0
  /\ idx = 1
  /\ offset = 0
  /\ deadline = 0
  /\ chunks = <<>>
  /\ winOpenedAt = 0
  /\ windowsClosed = 0
  /\ lastClose = NoClose
  /\ decrqm_chunks = <<>>
  /\ kitty_chunks = <<>>
  /\ pending = NoException
  /\ snapshot = NewSnapshot
  /\ output = NoFile
  /\ exitCode = -1
  /\ CodecIdle
  /\ AnalyzeIdle
  /\ DriversIdle

\* modes = parse_mode_list(args.modes); a ValueError leaves main uncaught
ParseModes ==
  /\ pc = "main"
  /\ LET r == parse_mode_list(argModes)
     IN IF r.ok
        THEN /\ modes' = r.modes
             /\ pc' = "check_term"
             /\ UNCHANGED <<pending, exitCode>>
        ELSE /\ pending' = RaiseAt("ValueError", "invalid literal for int()", "main")
             /\ pc' = "crashed"
             /\ exitCode' = 1
             /\ UNCHANGED modes
  /\ UNCHANGED <<inputVars, queueVars, driverVars, ttyVars, codecVars, analyzeVars, locals, windowsClosed, snapshot, output>>

\* if term_name.lower() in {"", "dumb"}: the skipped snapshot; else capture_snapshot(...)
CheckTerm ==
  /\ pc = "check_term"
  /\ IF IsUnsupportedTerm(envTerm)
     THEN /\ snapshot' = [snapshot EXCEPT !.requested_modes = modes, !.by_mode = EmptyDict,
                                          !.response_count = 0, !.responses = <<>>,
                                          !.current = Nothing, !.status = "skipped_unsupported_term"]
          /\ pc' = "write_doc"
     ELSE /\ pc' = "cs_isatty"
          /\ UNCHANGED snapshot
  /\ UNCHANGED <<inputVars, queueVars, driverVars, ttyVars, codecVars, analyzeVars, modes, locals, windowsClosed, pending, output, exitCode>>

\* the isatty checks at the head of capture_snapshot
CsIsatty ==
  /\ pc = "cs_isatty"
  /\ IF TtyPrecondition = "ok"
     THEN /\ pc' = "cs_save"
          /\ UNCHANGED pending
     ELSE /\ pending' = RaiseAt("RuntimeError", TtyPrecondition, "capture_snapshot")
          /\ pc' = "main_except"
  /\ UNCHANGED <<inputVars, queueVars, driverVars, ttyVars, codecVars, analyzeVars, modes, locals, windowsClosed, snapshot, output, exitCode>>

\* old_term = termios.tcgetattr(read_fd); old_flags = fcntl.fcntl(read_fd, F_GETFL)
CsSave ==
  /\ pc = "cs_save"
  /\ \/ /\ old_term' = termAttr
        /\ old_flags' = fdNonblock
        /\ pc' = "cs_setraw"
        /\ UNCHANGED pending
     \/ /\ pending' = RaiseAt("termios.error", "tcgetattr failed", "capture_snapshot")
        /\ pc' = "main_except"
        /\ UNCHANGED <<old_term, old_flags>>
  /\ UNCHANGED <<inputVars, queueVars, driverVars, ttyVars, codecVars, analyzeVars, modes, flushIter, idx, offset, deadline, chunks, winOpenedAt, windowsClosed, lastClose, decrqm_chunks, kitty_chunks, snapshot, output, exitCode>>

\* tty.setraw(read_fd)
CsSetRaw ==
  /\ pc = "cs_setraw"
  /\ \/ /\ termAttr' = "raw"
        /\ pc' = "cs_nonblock"
        /\ UNCHANGED pending
     \/ /\ pending' = RaiseAt("termios.error", "setraw failed", "capture_snapshot")
        /\ pc' = "fin_attr"
        /\ UNCHANGED termAttr
  /\ UNCHANGED <<inputVars, queueVars, driverVars, heard, codecVars, analyzeVars, fdNonblock, wire, ioRead, now, stalls, shortWrites, delivered, modes, locals, windowsClosed, snapshot, output, exitCode>>

\* fcntl.fcntl(read_fd, F_SETFL, old_flags | os.O_NONBLOCK)
CsNonblock ==
  /\ pc = "cs_nonblock"
  /\ \/ /\ fdNonblock' = TRUE
        /\ pc' = "cs_flush"
        /\ UNCHANGED pending
     \/ /\ pending' = RaiseAt("OSError", "fcntl failed", "capture_snapshot")
        /\ pc' = "fin_attr"
        /\ UNCHANGED fdNonblock
  /\ UNCHANGED <<inputVars, queueVars, driverVars, heard, codecVars, analyzeVars, termAttr, wire, ioRead, now, stalls, shortWrites, delivered, modes, locals, windowsClosed, snapshot, output, exitCode>>

\* a loop that lets one more read happen than range(8) does
FlushLoopDoneOneLate(reads) == reads > FlushIterations

\* for _ in range(8): the loop is over once that many reads were made
FlushLoopDone(reads) == reads >= FlushIterations

\* one iteration of flush_pending_input: data is discarded, BlockingIOError or b"" ends the loop
CsFlush ==
  /\ pc = "cs_flush"
  /\ ioRead' = TRUE
  /\ \/ /\ flushIter' = IF FlushLoopDone(flushIter + 1) THEN 0 ELSE flushIter + 1
        /\ pc' = IF FlushLoopDone(flushIter + 1) THEN "cs_send" ELSE "cs_flush"
        /\ UNCHANGED pending
     \/ /\ pc' = "cs_send"
        /\ flushIter' = 0
        /\ UNCHANGED pending
     \/ /\ pending' = RaiseAt("OSError", "read failed", "capture_snapshot")
        /\ pc' = "fin_attr"
        /\ flushIter' = 0
  /\ UNCHANGED <<inputVars, queueVars, driverVars, heard, codecVars, analyzeVars, termAttr, fdNonblock, wire, now, stalls, shortWrites, delivered, modes, old_term, old_flags, idx, offset, deadline, chunks, winOpenedAt, windowsClosed, lastClose, decrqm_chunks, kitty_chunks, snapshot, output, exitCode>>

\* one os.write of send_sequence: the terminal takes one byte or all that is left
SendWrite ==
  /\ pc = "cs_send"
  /\ \E written \in {Len(Query(idx)) - offset} \cup (IF shortWrites < MaxShortWrites THEN {1} ELSE {}) :
       /\ wire' = wire \o SubSeq(Query(idx), offset + 1, offset + written)
       /\ IF offset + written < Len(Query(idx))
          THEN /\ offset' = offset + written
               /\ shortWrites' = shortWrites + 1
               /\ UNCHANGED <<pc, deadline, winOpenedAt, chunks>>
          ELSE /\ offset' = 0
               /\ UNCHANGED shortWrites
               /\ pc' = "cs_read"
               /\ deadline' = WindowDeadline(now, WindowTimeout(idx))
               /\ winOpenedAt' = now
               /\ chunks' = <<>>
  /\ UNCHANGED <<inputVars, queueVars, driverVars, heard, codecVars, analyzeVars, termAttr, fdNonblock, ioRead, now, stalls, delivered, modes, old_term, old_flags, flushIter, idx, windowsClosed, lastClose, decrqm_chunks, kitty_chunks, pending, snapshot, output, exitCode>>

\* os.write takes nothing: except BlockingIOError: continue, with no deadline
SendStall ==
  /\ pc = "cs_send"
  /\ stalls < MaxStalls
  /\ stalls' = stalls + 1
  /\ now' = now + WriteStallMs
  /\ UNCHANGED <<inputVars, queueVars, driverVars, heard, codecVars, analyzeVars, termAttr, fdNonblock, wire, ioRead, shortWrites, delivered, codeVars>>

\* os.write raises another OSError: it leaves send_sequence and the try block
SendFail ==
  /\ pc = "cs_send"
  /\ pending' = RaiseAt("OSError", "write failed", "capture_snapshot")
  /\ pc' = "fin_attr"
  /\ heard' = <<>>
  /\ UNCHANGED <<inputVars, queueVars, driverVars, termAttr, fdNonblock, wire, ioRead, now, stalls, shortWrites, delivered, codecVars, analyzeVars, modes, locals, windowsClosed, snapshot, output, exitCode>>

\* read_available returns: if chunk: ..._chunks.append(chunk), and the loop goes on
\* every buffer is taken for the buffer of a mode query
IsModeWindowAlways(i) == TRUE

\* the windows of the loop over modes; the one after them is the keyboard query's
IsModeWindow(i) == i <= Len(modes)

CloseWindow(why) ==
  /\ lastClose' = [idx |-> idx, opened |-> winOpenedAt, at |-> now, why |-> why, timeout |-> WindowTimeout(idx)]
  /\ windowsClosed' = windowsClosed + 1
  /\ IF chunks = <<>>
     THEN UNCHANGED <<decrqm_chunks, kitty_chunks>>
     ELSE IF IsModeWindow(idx)
          THEN decrqm_chunks' = Append(decrqm_chunks, Join(chunks)) /\ UNCHANGED kitty_chunks
          ELSE kitty_chunks' = Append(kitty_chunks, Join(chunks)) /\ UNCHANGED decrqm_chunks
  /\ chunks' = <<>>
  /\ deadline' = 0
  /\ winOpenedAt' = 0
  /\ idx' = NextQueryIndex(idx)
  /\ pc' = IF NextQueryIndex(idx) <= Len(modes) + 1 THEN "cs_send" ELSE "fin_attr"

\* remaining = deadline - time.monotonic(); if remaining <= 0: break
ReadTimeout ==
  /\ pc = "cs_read"
  /\ deadline - now <= 0
  /\ CloseWindow("timeout")
  /\ UNCHANGED <<inputVars, queueVars, driverVars, ttyVars, codecVars, analyzeVars, modes, old_term, old_flags, flushIter, offset, pending, snapshot, output, exitCode>>

\* select returns nothing after min(remaining, 0.02): if not r: continue
ReadWait ==
  /\ pc = "cs_read"
  /\ deadline - now > 0
  /\ now' = now + Min(deadline - now, SelectSliceMs)
  /\ UNCHANGED <<inputVars, queueVars, driverVars, heard, codecVars, analyzeVars, termAttr, fdNonblock, wire, ioRead, stalls, shortWrites, delivered, codeVars>>

\* select reports the descriptor readable and os.read returns data: chunks.append(data)
ReadData ==
  /\ pc = "cs_read"
  /\ deadline - now > 0
  /\ delivered < MaxChunks
  /\ \E data \in TermChunks :
       /\ chunks' = Append(chunks, data)
       /\ heard' = Append(heard, [win |-> idx, data |-> data])
  /\ delivered' = delivered + 1
  /\ ioRead' = TRUE
  /\ UNCHANGED <<inputVars, queueVars, driverVars, codecVars, analyzeVars, termAttr, fdNonblock, wire, now, stalls, shortWrites, pc, modes, old_term, old_flags, flushIter, idx, offset, deadline, winOpenedAt, windowsClosed, lastClose, decrqm_chunks, kitty_chunks, pending, snapshot, output, exitCode>>

\* os.read returns b"": if not data: break
ReadEof ==
  /\ pc = "cs_read"
  /\ deadline - now > 0
  /\ ioRead' = TRUE
  /\ CloseWindow("eof")
  /\ UNCHANGED <<inputVars, queueVars, driverVars, heard, codecVars, analyzeVars, termAttr, fdNonblock, wire, now, stalls, shortWrites, delivered, modes, old_term, old_flags, flushIter, offset, pending, snapshot, output, exitCode>>

\* select or os.read raises: the exception leaves read_available and the try block
ReadFail ==
  /\ pc = "cs_read"
  /\ deadline - now > 0
  /\ pending' = RaiseAt("OSError", "read failed", "capture_snapshot")
  /\ pc' = "fin_attr"
  /\ chunks' = <<>>
  /\ deadline' = 0
  /\ winOpenedAt' = 0
  /\ heard' = <<>>
  /\ UNCHANGED <<inputVars, queueVars, driverVars, termAttr, fdNonblock, wire, ioRead, now, stalls, shortWrites, delivered, codecVars, analyzeVars, modes, old_term, old_flags, flushIter, idx, offset, lastClose, decrqm_chunks, kitty_chunks, windowsClosed, snapshot, output, exitCode>>

\* finally: termios.tcsetattr(read_fd, TCSADRAIN, old_term); when it raises, the next line is skipped
FinAttr ==
  /\ pc = "fin_attr"
  /\ \/ /\ termAttr' = old_term
        /\ pc' = "fin_flags"
        /\ UNCHANGED <<pending, locals, heard>>
     \/ /\ pending' = RaiseAt("termios.error", "restoring tcsetattr failed", "capture_snapshot")
        /\ pc' = "main_except"
        /\ LeaveCapture
        /\ heard' = <<>>
        /\ UNCHANGED termAttr
  /\ UNCHANGED <<inputVars, queueVars, driverVars, codecVars, analyzeVars, fdNonblock, wire, ioRead, now, stalls, shortWrites, delivered, modes, windowsClosed, snapshot, output, exitCode>>

\* finally: fcntl.fcntl(read_fd, F_SETFL, old_flags); then the exception in flight, if any, goes on
FinFlags ==
  /\ pc = "fin_flags"
  /\ \/ /\ fdNonblock' = old_flags
        /\ IF pending.type = "none"
           THEN pc' = "cs_result" /\ UNCHANGED locals
           ELSE pc' = "main_except" /\ LeaveCapture
        /\ UNCHANGED <<pending, heard>>
     \/ /\ pending' = RaiseAt("OSError", "restoring fcntl failed", "capture_snapshot")
        /\ pc' = "main_except"
        /\ LeaveCapture
        /\ heard' = <<>>
        /\ UNCHANGED fdNonblock
  /\ UNCHANGED <<inputVars, queueVars, driverVars, codecVars, analyzeVars, termAttr, wire, ioRead, now, stalls, shortWrites, delivered, modes, windowsClosed, snapshot, output, exitCode>>

\* only the buffer of the last answered mode query is decoded
DecrqmRawLastBuffer == IF decrqm_chunks = <<>> THEN <<>> ELSE decrqm_chunks[Len(decrqm_chunks)]

\* decrqm_raw = b"".join(decrqm_chunks)
decrqm_raw == Join(decrqm_chunks)

\* the decoding and the returned dict of capture_snapshot; snapshot.update(data); status = "ok"
CsResult ==
  /\ pc = "cs_result"
  /\ \/ LET by_mode == parse_decrqm_responses(decrqm_raw)
            kitty == parse_kitty_response(Join(kitty_chunks))
        IN /\ ~parse_decrqm_raises(decrqm_raw)
           /\ snapshot' = [snapshot EXCEPT !.requested_modes = modes, !.by_mode = by_mode,
                                           !.response_count = Cardinality(DOMAIN by_mode),
                                           !.responses = kitty.responses, !.current = kitty.current,
                                           !.status = "ok"]
           /\ pc' = "write_doc"
           /\ UNCHANGED <<pending, heard>>
     \/ /\ pending' = IF parse_decrqm_raises(decrqm_raw)
                       THEN RaiseAt("ValueError", "Exceeds the limit for integer string conversion", "capture_snapshot")
                       ELSE RaiseAt("OSError", "ttyname failed", "capture_snapshot")
        /\ pc' = "main_except"
        /\ heard' = <<>>
        /\ UNCHANGED snapshot
  /\ LeaveCapture
  /\ UNCHANGED <<inputVars, queueVars, driverVars, termAttr, fdNonblock, wire, ioRead, now, stalls, shortWrites, delivered, codecVars, analyzeVars, modes, windowsClosed, output, exitCode>>

\* except Exception as exc: status = "error", error = str(exc); anything else leaves main
MainExcept ==
  /\ pc = "main_except"
  /\ IF Caught(pending.type)
     THEN /\ snapshot' = [snapshot EXCEPT !.status = "error", !.error = pending.msg]
          /\ pc' = "write_doc"
          /\ UNCHANGED exitCode
     ELSE /\ pc' = "crashed"
          /\ exitCode' = 1
          /\ UNCHANGED snapshot
  /\ UNCHANGED <<inputVars, queueVars, driverVars, ttyVars, codecVars, analyzeVars, modes, locals, windowsClosed, pending, output>>

\* output.write_text(json.dumps(snapshot, ...))
WriteDoc ==
  /\ pc = "write_doc"
  /\ output' = snapshot
  /\ pc' = "main_return"
  /\ UNCHANGED <<inputVars, queueVars, driverVars, ttyVars, codecVars, analyzeVars, modes, locals, windowsClosed, pending, snapshot, exitCode>>

\* return 0 if snapshot.get("status") in {...} else 1; raise SystemExit(main())
Return ==
  /\ pc = "main_return"
  /\ exitCode' = ExitCodeOf(snapshot.status)
  /\ pc' = "exited"
  /\ UNCHANGED <<inputVars, queueVars, driverVars, ttyVars, codecVars, analyzeVars, modes, locals, windowsClosed, pending, snapshot, output>>

Next ==
  \/ ParseModes \/ CheckTerm \/ CsIsatty \/ CsSave \/ CsSetRaw \/ CsNonblock \/ CsFlush
  \/ SendWrite \/ SendStall \/ SendFail
  \/ ReadTimeout \/ ReadWait \/ ReadData \/ ReadEof \/ ReadFail
  \/ FinAttr \/ FinFlags \/ CsResult \/ MainExcept \/ WriteDoc \/ Return

Spec == InitMain /\ [][Next]_vars

----------------------------------------------------------------------------
\* The decoders applied to a received buffer on their own.

\* a mode report as a terminal sends it: ESC [ ? <mode> ; <value> $ y
Report(mode, value) == <<"ESC", "[", "?">> \o mode \o <<";">> \o value \o <<"$", "y">>

\* the pieces a received buffer is made of
Fragments ==
  { Report(<<"1">>, <<"1">>),
    Report(<<"1">>, <<"2">>),
    Report(<<"0", "1">>, <<"3">>),
    Report(<<"2">>, <<"5">>),
    EncodeModeQuery(1),
    <<"ESC", "[", "?", "1", ";", "2", "u">>,
    <<"ESC", "[", "?", "1", ";">>,
    <<"ESC", "[", "?", "1", ";", "x", "$", "y">>,
    Report(<<"1">>, <<LongDigitRun>>),
    <<"x">> }

RECURSIVE FragLists(_)
\* the lists of at most n fragments
FragLists(n) == IF n = 0 THEN {<<>>} ELSE FragLists(n - 1) \cup {l \o <<f>> : l \in FragLists(n - 1), f \in Fragments}

\* the modes a synthetic terminal is asked about, and the raw values it answers with
SynthModes == {1, 2, 1049}

SynthValues == {0, 1, 2, 3, 4, 5, 12}

\* the keyboard query, as an item of an echoed list
KeyboardQuery == -1

RECURSIVE ModeLists(_, _)
\* the lists of at most n members of S
ModeLists(S, n) == IF n = 0 THEN {<<>>} ELSE ModeLists(S, n - 1) \cup {l \o <<m>> : l \in ModeLists(S, n - 1), m \in S}

\* one synthetic response per listed mode, in list order
SynthResponses(ms, val) == Join([i \in 1..Len(ms) |-> Report(StrOf(ms[i]), StrOf(val[ms[i]]))])

\* the queries a terminal that answers nothing echoes back
EchoedQueries(qs) == Join([i \in 1..Len(qs) |-> IF qs[i] = KeyboardQuery THEN KittyQuery ELSE EncodeModeQuery(qs[i])])

\* every variable of the snapshot program at rest
MainIdle(at) ==
  /\ argModes = <<>>
  /\ argPerQuery = 0
  /\ argKitty = 0
  /\ envTerm = <<>>
  /\ readIsTty = FALSE
  /\ writeIsTty = FALSE
  /\ entryAttr = "cooked"
  /\ entryNonblock = FALSE
  /\ termAttr = "cooked"
  /\ fdNonblock = FALSE
  /\ wire = <<>>
  /\ ioRead = FALSE
  /\ now = 0
  /\ stalls = 0
  /\ shortWrites = 0
  /\ delivered = 0
  /\ heard = <<>>
  /\ unread = <<>>
  /\ pc = at
  /\ modes = <<>>
  /\ old_term = "unset"
  /\ old_flags = FALSE
  /\ flushIter = 0
  /\ idx = 1
  /\ offset = 0
  /\ deadline = 0
  /\ chunks = <<>>
  /\ winOpenedAt = 0
  /\ windowsClosed = 0
  /\ lastClose = NoClose
  /\ decrqm_chunks = <<>>
  /\ kitty_chunks = <<>>
  /\ pending = NoException
  /\ snapshot = NewSnapshot
  /\ output = NoFile
  /\ exitCode = -1

InitCodec ==
  /\ \/ /\ dSrc \in [kind : {"fragments"}, items : FragLists(MaxFrags)]
        /\ dBuf = Join(dSrc.items)
     \/ /\ dSrc \in [kind : {"responses"}, items : ModeLists(SynthModes, MaxSynth), val : [SynthModes -> SynthValues]]
        /\ dBuf = SynthResponses(dSrc.items, dSrc.val)
     \/ /\ dSrc \in [kind : {"echo"}, items : ModeLists(SynthModes \cup {KeyboardQuery}, MaxSynth)]
        /\ dBuf = EchoedQueries(dSrc.items)
  /\ dResult = [done |-> FALSE, error |-> "none"]
  /\ DriversIdle
  /\ MainIdle("codec")
  /\ AnalyzeIdle

\* by_mode = parse_decrqm_responses(decrqm_raw); kitty = parse_kitty_response(kitty_raw)
Decode ==
  /\ pc = "codec"
  /\ ~dResult.done
  /\ dResult' = IF parse_decrqm_raises(dBuf)
                THEN [done |-> TRUE, error |-> "ValueError", by_mode |-> EmptyDict, kitty |-> parse_kitty_response(<<>>)]
                ELSE [done |-> TRUE, error |-> "none", by_mode |-> parse_decrqm_responses(dBuf), kitty |-> parse_kitty_response(dBuf)]
  /\ UNCHANGED <<inputVars, queueVars, driverVars, ttyVars, codeVars, analyzeVars, dSrc, dBuf>>

NextCodec == Decode

SpecCodec == InitCodec /\ [][NextCodec]_vars

----------------------------------------------------------------------------
\* issue26-manual-analyze.py: the line-discipline reports (stty -a) and their diff.

IMPORTANT_STTY_FLAGS ==
  << <<"i", "s", "i", "g">>,
     <<"i", "c", "a", "n", "o", "n">>,
     <<"e", "c", "h", "o">>,
     <<"i", "e", "x", "t", "e", "n">>,
     <<"i", "x", "o", "n">>,
     <<"i", "x", "o", "f", "f">>,
     <<"o", "p", "o", "s", "t">> >>

FlagSet == {IMPORTANT_STTY_FLAGS[i] : i \in DOMAIN IMPORTANT_STTY_FLAGS}

\* \w of the pattern, in a text that went through lower()
WordChars == {LowerAlphabet[i] : i \in 1..26} \cup Digits \cup {"_"}

\* [a-z]
TokenHead == {LowerAlphabet[i] : i \in 1..26}

\* [a-z0-9_-]
TokenTail == TokenHead \cup Digits \cup {"_", "-"}

IsWordAt(t, i) == i >= 1 /\ i <= Len(t) /\ t[i] \in WordChars

\* \b holds between t[i - 1] and t[i]
WordBoundary(t, i) == IsWordAt(t, i - 1) # IsWordAt(t, i)

RECURSIVE LastBoundary(_, _, _)
\* the greedy tail gives bytes back until \b holds: the last e in lo..hi with a boundary, 0 when there is none
LastBoundary(t, hi, lo) == IF hi < lo THEN 0 ELSE IF WordBoundary(t, hi) THEN hi ELSE LastBoundary(t, hi - 1, lo)

\* r"\b-?[a-z][a-z0-9_-]*\b" tried at position i: one past the match, 0 when it does not match
SttyTokenEnd(t, i) ==
  LET s == IF t[i] = "-" THEN i + 1 ELSE i
  IN IF WordBoundary(t, i) /\ s <= Len(t) /\ t[s] \in TokenHead
     THEN LastBoundary(t, RunEnd(t, s + 1, TokenTail), s + 1)
     ELSE 0

RECURSIVE SttyFindAll(_, _)
\* set(re.findall(pattern, text)): the non-overlapping matches, left to right
SttyFindAll(t, i) ==
  IF i > Len(t) THEN {}
  ELSE LET e == SttyTokenEnd(t, i)
       IN IF e > 0 THEN {SubSeq(t, i, e - 1)} \cup SttyFindAll(t, e)
          ELSE SttyFindAll(t, i + 1)

\* a parser that does not lower the text first
ParseSttyStatesCaseSensitive(stty_text) ==
  LET tokens == SttyFindAll(stty_text, 1)
  IN [flag \in FlagSet |-> IF flag \in tokens THEN Some(TRUE)
                           ELSE IF (<<"-">> \o flag) \in tokens THEN Some(FALSE)
                           ELSE Nothing]

\* state[flag] = True | False | None, for the seven flags
parse_stty_states(stty_text) ==
  LET tokens == SttyFindAll(Lower(stty_text), 1)
  IN [flag \in FlagSet |-> IF flag \in tokens THEN Some(TRUE)
                           ELSE IF (<<"-">> \o flag) \in tokens THEN Some(FALSE)
                           ELSE Nothing]

\* a diff that takes an unknown side for False
SummarizeSttyDiffUnknownAsFalse(before_text, after_text) ==
  LET before == parse_stty_states(before_text)
      after == parse_stty_states(after_text)
      b(f) == before[f] = Some(TRUE)
      a(f) == after[f] = Some(TRUE)
      changed == SelectSeq(IMPORTANT_STTY_FLAGS, LAMBDA f : b(f) # a(f))
  IN [before |-> before, after |-> after,
      changes |-> [i \in DOMAIN changed |-> [flag |-> changed[i], before |-> b(changed[i]), after |-> a(changed[i])]]]

\* a diff that reports only the flags that went off
SummarizeSttyDiffDisablesOnly(before_text, after_text) ==
  LET before == parse_stty_states(before_text)
      after == parse_stty_states(after_text)
      changed == SelectSeq(IMPORTANT_STTY_FLAGS, LAMBDA f : before[f] = Some(TRUE) /\ after[f] = Some(FALSE))
  IN [before |-> before, after |-> after,
      changes |-> [i \in DOMAIN changed |-> [flag |-> changed[i], before |-> TRUE, after |-> FALSE]]]

\* changes.append({"flag", "before", "after"}) for the flags known on both sides that differ
summarize_stty_diff(before_text, after_text) ==
  LET before == parse_stty_states(before_text)
      after == parse_stty_states(after_text)
      changed == SelectSeq(IMPORTANT_STTY_FLAGS, LAMBDA f : before[f] # Nothing /\ after[f] # Nothing /\ before[f] # after[f])
  IN [before |-> before, after |-> after,
      changes |-> [i \in DOMAIN changed |-> [flag |-> changed[i], before |-> before[changed[i]][1], after |-> after[changed[i]][1]]]]

\* what a report says about a flag: the flag on, the flag off as stty prints
\* it, the off form right after a digit, and a longer name that starts like a flag
SttyWords ==
  { <<"e", "c", "h", "o">>,
    <<"-", "e", "c", "h", "o">>,
    <<"9", "-", "e", "c", "h", "o">>,
    <<"i", "c", "a", "n", "o", "n">>,
    <<"9", "-", "i", "c", "a", "n", "o", "n">>,
    <<"e", "c", "h", "o", "e">> }

RECURSIVE WordLists(_)
\* the lists of at most n words
WordLists(n) == IF n = 0 THEN {<<>>} ELSE WordLists(n - 1) \cup {l \o <<w>> : l \in WordLists(n - 1), w \in SttyWords}

UpperChar(c) == IF \E i \in 1..26 : LowerAlphabet[i] = c THEN UpperAlphabet[CHOOSE i \in 1..26 : LowerAlphabet[i] = c] ELSE c

\* how a report is laid out: the letter case and the whitespace before each word
Layouts ==
  { [upper |-> FALSE, gap |-> <<" ">>],
    [upper |-> TRUE, gap |-> <<" ">>],
    [upper |-> FALSE, gap |-> <<"\n", "\t">>],
    [upper |-> TRUE, gap |-> <<" ", " ">>] }

PlainLayout == [upper |-> FALSE, gap |-> <<" ">>]

\* the text of a report that lists the words in the layout
ReportText(words, layout) ==
  LET text == Join([i \in 1..Len(words) |-> layout.gap \o words[i]])
  IN IF layout.upper THEN [i \in 1..Len(text) |-> UpperChar(text[i])] ELSE text

InitStty ==
  /\ \/ sSrc \in [kind : {"reports"}, a : WordLists(MaxWords), la : {PlainLayout}, b : WordLists(MaxWords), lb : {PlainLayout}]
     \/ /\ sSrc \in [kind : {"relaid"}, a : WordLists(MaxWords), la : Layouts, b : WordLists(MaxWords), lb : Layouts]
        /\ sSrc.a = sSrc.b
  /\ sA = ReportText(sSrc.a, sSrc.la)
  /\ sB = ReportText(sSrc.b, sSrc.lb)
  /\ sOut = [done |-> FALSE]
  /\ DriversIdle
  /\ MainIdle("analyze")
  /\ CodecIdle
  /\ ProtoIdle
  /\ VerdictIdle

\* stty_diff = summarize_stty_diff(before_stty, after_stty), for the two reports in both orders
SttyDiff ==
  /\ pc = "analyze"
  /\ sSrc.kind \in {"reports", "relaid"}
  /\ ~sOut.done
  /\ sOut' = [done |-> TRUE, ab |-> summarize_stty_diff(sA, sB), ba |-> summarize_stty_diff(sB, sA)]
  /\ UNCHANGED <<inputVars, queueVars, driverVars, ttyVars, codeVars, codecVars, protoVars, verdictVars, sSrc, sA, sB>>

NextStty == SttyDiff

SpecStty == InitStty /\ [][NextStty]_vars

----------------------------------------------------------------------------
\* issue26-manual-analyze.py: the two protocol snapshots and their diff.

PROTOCOL_MODE_LABELS ==
  [k \in {StrOf(1000), StrOf(1002), StrOf(1003), StrOf(1004), StrOf(1005), StrOf(1006),
          StrOf(1015), StrOf(1016), StrOf(1049), StrOf(2004), StrOf(2026)} |->
     CASE k = StrOf(1000) -> "mouse_x10"
       [] k = StrOf(1002) -> "mouse_button_event_tracking"
       [] k = StrOf(1003) -> "mouse_any_event_tracking"
       [] k = StrOf(1004) -> "focus_tracking"
       [] k = StrOf(1005) -> "mouse_utf8"
       [] k = StrOf(1006) -> "mouse_sgr"
       [] k = StrOf(1015) -> "mouse_urxvt"
       [] k = StrOf(1016) -> "mouse_sgr_pixels"
       [] k = StrOf(1049) -> "alternate_screen_buffer"
       [] k = StrOf(2004) -> "bracketed_paste"
       [] k = StrOf(2026) -> "synchronized_output"]

PROTOCOL_SUSPICIOUS_ENABLE_MODES ==
  {StrOf(1002), StrOf(1003), StrOf(1004), StrOf(1005), StrOf(1006),
   StrOf(1015), StrOf(1016), StrOf(1049), StrOf(2004), StrOf(2026)}

\* PROTOCOL_MODE_LABELS.get(mode, f"mode_{mode}")
LabelOf(mode) == IF mode \in DOMAIN PROTOCOL_MODE_LABELS THEN <<PROTOCOL_MODE_LABELS[mode]>> ELSE <<"mode_">> \o mode

\* result[key] = {"value": value, "state": state} for one raw entry of by_mode
NormalizeEntry(raw_entry) ==
  [value |-> raw_entry.value,
   state |-> IF raw_entry.state # "" THEN raw_entry.state
             ELSE IF raw_entry.value # Nothing THEN DECRPM_STATE_LABEL(raw_entry.value[1])
             ELSE "unknown"]

\* {} when the snapshot has no decrqm object, else the normalized entries by mode key
normalize_protocol_modes(snap) ==
  IF snap.decrqm = Nothing THEN EmptyDict
  ELSE [k \in DOMAIN snap.decrqm[1] |-> NormalizeEntry(snap.decrqm[1][k])]

\* None without a kitty_keyboard object or without a current value, else str(value)
get_kitty_current(snap) == IF snap.kitty = Nothing THEN Nothing ELSE snap.kitty[1]

RECURSIVE SortedByInt(_)
\* sorted(keys, key=int)
SortedByInt(keys) ==
  IF keys = {} THEN <<>>
  ELSE LET least == CHOOSE k \in keys : \A other \in keys : IntOf(k) <= IntOf(other)
       IN <<least>> \o SortedByInt(keys \ {least})

MissingEntry == [value |-> Nothing, state |-> "missing"]

\* before.get(mode, {"value": None, "state": "missing"})
EntryOf(modes_map, mode) == IF mode \in DOMAIN modes_map THEN modes_map[mode] ELSE MissingEntry

IsEnabledState(state) == state \in {"set", "permanently_set"}

\* a comparison of the values alone
EntryChangedValueOnly(before, after) == before.value # after.value

\* not (before["value"] == after["value"] and before["state"] == after["state"])
EntryChanged(before, after) == ~(before.value = after.value /\ before.state = after.state)

summarize_protocol_diff(before_snapshot, after_snapshot) ==
  LET before_modes == normalize_protocol_modes(before_snapshot)
      after_modes == normalize_protocol_modes(after_snapshot)
      all_modes == SortedByInt(DOMAIN before_modes \cup DOMAIN after_modes)
      Row(mode) == [mode |-> mode, label |-> LabelOf(mode),
                    before |-> EntryOf(before_modes, mode), after |-> EntryOf(after_modes, mode)]
      changed == SelectSeq(all_modes, LAMBDA mode : EntryChanged(EntryOf(before_modes, mode), EntryOf(after_modes, mode)))
      suspicious == SelectSeq(changed, LAMBDA mode :
                       /\ mode \in PROTOCOL_SUSPICIOUS_ENABLE_MODES
                       /\ ~IsEnabledState(EntryOf(before_modes, mode).state)
                       /\ IsEnabledState(EntryOf(after_modes, mode).state))
      before_kitty == get_kitty_current(before_snapshot)
      after_kitty == get_kitty_current(after_snapshot)
  IN [before_status |-> before_snapshot.status,
      after_status |-> after_snapshot.status,
      modes |-> [before |-> before_modes, after |-> after_modes,
                 changes |-> [i \in DOMAIN changed |-> Row(changed[i])],
                 suspicious_changes |-> [i \in DOMAIN suspicious |-> Row(suspicious[i])]],
      kitty_keyboard |-> [before |-> before_kitty, after |-> after_kitty,
                          changed |-> before_kitty # after_kitty,
                          suspicious |-> before_kitty # after_kitty /\ after_kitty # Nothing]]

\* the modes a snapshot file may report: one without a label, x10 mouse tracking, the alternate screen
SnapshotModeKeys == {StrOf(25), StrOf(1000), StrOf(1049)}

\* an entry of by_mode as the snapshot script writes it, one without its state
\* text, and one whose state text overrides what its value says
RawEntries ==
  { [value |-> Some(1), state |-> "set"],
    [value |-> Some(2), state |-> "reset"],
    [value |-> Some(3), state |-> ""],
    [value |-> Some(1), state |-> "reset"] }

\* the by_mode objects with at most n modes
ModeMaps(n) == UNION {[K -> RawEntries] : K \in {S \in SUBSET SnapshotModeKeys : Cardinality(S) <= n}}

KittyCurrents == {Nothing, Some(<<"1">>), Some(<<"3">>)}

\* {} for an absent file
AbsentSnapshot == [status |-> Nothing, decrqm |-> Nothing, kitty |-> Nothing]

\* a file of status error, or {"status": "error", "error": "invalid_json"} for an unreadable one
ErrorSnapshot == [status |-> Some("error"), decrqm |-> Nothing, kitty |-> Nothing]

SkippedSnapshot == [status |-> Some("skipped_unsupported_term"), decrqm |-> Some(EmptyDict), kitty |-> Some(Nothing)]

\* what load_optional_json returns for a file the snapshot script wrote, or for none
Snapshots(n) ==
  {AbsentSnapshot, ErrorSnapshot, SkippedSnapshot}
    \cup {[status |-> Some("ok"), decrqm |-> Some(m), kitty |-> Some(c)] : m \in ModeMaps(n), c \in KittyCurrents}

InitProtocol ==
  /\ pBefore \in Snapshots(MaxSnapshotModes)
  /\ pAfter \in Snapshots(MaxSnapshotModes)
  /\ pOut = [done |-> FALSE]
  /\ DriversIdle
  /\ MainIdle("analyze")
  /\ CodecIdle
  /\ SttyIdle
  /\ VerdictIdle

\* terminal_protocols = summarize_protocol_diff(protocol_before, protocol_after)
ProtocolDiff ==
  /\ pc = "analyze"
  /\ pBefore # NoSource
  /\ ~pOut.done
  /\ pOut' = [done |-> TRUE, diff |-> summarize_protocol_diff(pBefore, pAfter)]
  /\ UNCHANGED <<inputVars, queueVars, driverVars, ttyVars, codeVars, codecVars, sttyVars, verdictVars, pBefore, pAfter>>

NextProtocol == ProtocolDiff

SpecProtocol == InitProtocol /\ [][NextProtocol]_vars

----------------------------------------------------------------------------
\* issue26-manual-analyze.py: the session transcript and the verdict.

Least(positions) == CHOOSE k \in positions : \A other \in positions : k <= other

\* needle in session_text, from position i on
ContainsFrom(text, needle, i) ==
  \E k \in i..(Len(text) - Len(needle) + 1) : text[k] = needle[1] /\ SubSeq(text, k, k + Len(needle) - 1) = needle

Contains(text, needle) == ContainsFrom(text, needle, 1)

\* the text starts with the word at position i, letter case aside
StartsWithNoCase(text, i, word) ==
  /\ i + Len(word) - 1 <= Len(text)
  /\ \A k \in 1..Len(word) : LowerChar(text[i + k - 1]) = LowerChar(word[k])

\* [0-9a-f] under re.IGNORECASE
HexBytes == Digits \cup {"a", "b", "c", "d", "e", "f", "A", "B", "C", "D", "E", "F"}

ProbeHead(name) == <<"_", "_", "I", "S", "S", "U", "E", "2", "6", "_">> \o name \o <<"_", "P", "R", "O", "B", "E", "_", "_">>

\* rf"__ISSUE26_{name}_PROBE__([0-9a-f]+|timeout)__" tried at position i: the group, or Nothing
ProbeMatchAt(text, i, name) ==
  LET j == i + Len(ProbeHead(name))
      e == RunEnd(text, j, HexBytes)
  IN IF ~StartsWithNoCase(text, i, ProbeHead(name)) THEN Nothing
     ELSE IF e > j /\ StartsWithNoCase(text, e, <<"_", "_">>) THEN Some(SubSeq(text, j, e - 1))
     ELSE IF StartsWithNoCase(text, j, <<"t", "i", "m", "e", "o", "u", "t", "_", "_">>) THEN Some(SubSeq(text, j, j + 6))
     ELSE Nothing

\* pattern.search(session_text): the first position that matches
ProbeSearch(text, i, name) ==
  LET starts == {k \in i..Len(text) : text[k] = "_" /\ ProbeMatchAt(text, k, name) # Nothing}
  IN IF starts = {} THEN Nothing ELSE ProbeMatchAt(text, Least(starts), name)

\* match.group(1).lower() if match else None
extract_probe(session_text, name) ==
  LET group == ProbeSearch(session_text, 1, name)
  IN IF group = Nothing THEN Nothing ELSE Some(Lower(group[1]))

\* f"__ISSUE26_{name}__" in session_text
has_marker(session_text, name) == Contains(session_text, <<"_", "_", "I", "S", "S", "U", "E", "2", "6", "_">> \o name \o <<"_", "_">>)

has_raw_leak_pattern(session_text) ==
  \E arrow \in {"A", "B", "C", "D"} : Contains(session_text, <<"^", "[", "[", arrow>>)

CsiParams == Digits \cup {";"}

\* [a-z~]: no capital letter ends a sequence
CsiFinalsLowerCase == {LowerAlphabet[i] : i \in 1..26} \cup {"~"}

\* [A-Za-z~u]
CsiFinals == {LowerAlphabet[i] : i \in 1..26} \cup {UpperAlphabet[i] : i \in 1..26} \cup {"~"}

\* head, then [0-9;]*, then one byte of finals, tried at position i: one past the match, 0 when it does not match
CsiMatchEnd(text, i, head, finals) ==
  LET j == i + Len(head)
      e == RunEnd(text, j, CsiParams)
  IN IF i + Len(head) - 1 <= Len(text) /\ SubSeq(text, i, j - 1) = head /\ e <= Len(text) /\ text[e] \in finals
     THEN e + 1
     ELSE 0

RECURSIVE CsiCount(_, _, _, _)
\* len(re.findall(...)): the leftmost match from position i on, then the matches after its end
CsiCount(text, i, head, finals) ==
  LET starts == {k \in i..Len(text) : text[k] = head[1] /\ CsiMatchEnd(text, k, head, finals) > 0}
  IN IF starts = {} THEN 0
     ELSE 1 + CsiCount(text, CsiMatchEnd(text, Least(starts), head, finals), head, finals)

RECURSIVE CountOf(_, _, _)
\* len(re.findall(...)) for a pattern that is one of a set of fixed words of one length
CountOf(text, i, words) ==
  LET n == Len(CHOOSE w \in words : TRUE)
      starts == {k \in i..(Len(text) - n + 1) : SubSeq(text, k, k + n - 1) \in words}
  IN IF starts = {} THEN 0 ELSE 1 + CountOf(text, Least(starts) + n, words)

detect_protocol_leak_signals(session_text) ==
  [caret_csi_count |-> CsiCount(session_text, 1, <<"^", "[", "[">>, CsiFinals),
   raw_csi_u_count |-> CsiCount(session_text, 1, <<"ESC", "[">>, {"u"}),
   raw_focus_toggle_count |-> CountOf(session_text, 1, {<<"ESC", "[", "?", "1", "0", "0", "4", "h">>, <<"ESC", "[", "?", "1", "0", "0", "4", "l">>})]

\* the needles of detect_capture_errors, in order, each with its message
CaptureErrorChecks ==
  << [needle |-> <<"t", "e", "r", "m", "i", "o", "s", ".", "e", "r", "r", "o", "r">>,
      message |-> "termios.error occurred during probe"],
     [needle |-> <<"I", "n", "a", "p", "p", "r", "o", "p", "r", "i", "a", "t", "e", " ", "i", "o", "c", "t", "l", " ", "f", "o", "r", " ", "d", "e", "v", "i", "c", "e">>,
      message |-> "stdin was not a tty during probe"],
     [needle |-> <<"T", "r", "a", "c", "e", "b", "a", "c", "k", " ", "(", "m", "o", "s", "t", " ", "r", "e", "c", "e", "n", "t", " ", "c", "a", "l", "l", " ", "l", "a", "s", "t", ")", ":">>,
      message |-> "python traceback detected in capture"],
     [needle |-> <<"S", "y", "n", "t", "a", "x", "E", "r", "r", "o", "r", ":">>,
      message |-> "python probe syntax error detected"] >>

\* a detector that knows the traceback header only
DetectCaptureErrorsTracebackOnly(session_text) ==
  IF Contains(session_text, <<"T", "r", "a", "c", "e", "b", "a", "c", "k", " ", "(", "m", "o", "s", "t", " ", "r", "e", "c", "e", "n", "t", " ", "c", "a", "l", "l", " ", "l", "a", "s", "t", ")", ":">>)
  THEN <<"python traceback detected in capture">>
  ELSE <<>>

detect_capture_errors(session_text) ==
  LET found == SelectSeq(CaptureErrorChecks, LAMBDA check : Contains(session_text, check.needle))
  IN [i \in DOMAIN found |-> found[i].message]

NoSttyDiff == [before |-> EmptyDict, after |-> EmptyDict, changes |-> <<>>]

ProbeValue(hex) == Some(hex)

\* the probe values and markers read from the transcript
Probes(session_text) ==
  [enter_value |-> extract_probe(session_text, <<"E", "N", "T", "E", "R">>),
   tab_value |-> extract_probe(session_text, <<"T", "A", "B">>),
   ctrl_interrupted |-> has_marker(session_text, <<"C", "T", "R", "L", "_", "I", "N", "T", "E", "R", "R", "U", "P", "T", "E", "D">>),
   ctrl_done |-> has_marker(session_text, <<"C", "T", "R", "L", "_", "D", "O", "N", "E">>),
   raw_leak_detected |-> has_raw_leak_pattern(session_text)]

SuspiciousProtocolDrift(terminal_protocols) ==
  terminal_protocols.modes.suspicious_changes # <<>> \/ terminal_protocols.kitty_keyboard.suspicious

\* only the Enter probe is looked at
ProbeTimeoutsEnterOnly(probes) ==
  IF probes.enter_value = ProbeValue(<<"t", "i", "m", "e", "o", "u", "t">>) THEN <<"enter">> ELSE <<>>

ProbeTimeouts(probes) ==
  (IF probes.enter_value = ProbeValue(<<"t", "i", "m", "e", "o", "u", "t">>) THEN <<"enter">> ELSE <<>>)
    \o (IF probes.tab_value = ProbeValue(<<"t", "i", "m", "e", "o", "u", "t">>) THEN <<"tab">> ELSE <<>>)

SuspiciousSttyChange(stty) ==
  \E i \in DOMAIN stty.changes :
    /\ stty.changes[i].flag \in {<<"i", "s", "i", "g">>, <<"i", "c", "a", "n", "o", "n">>, <<"e", "c", "h", "o">>}
    /\ stty.changes[i].after = FALSE

\* the Ctrl-C probe is not looked at
SuspectedIgnoringCtrl(probes, suspicious_stty_change, suspicious_protocol_drift) ==
  \/ suspicious_stty_change
  \/ suspicious_protocol_drift
  \/ probes.enter_value \notin {ProbeValue(<<"0", "d">>), ProbeValue(<<"0", "a">>)}
  \/ probes.tab_value # ProbeValue(<<"0", "9">>)
  \/ probes.raw_leak_detected

\* only the probes and the raw-leak pattern are looked at
SuspectedByProbesOnly(probes, suspicious_stty_change, suspicious_protocol_drift) ==
  \/ probes.enter_value \notin {ProbeValue(<<"0", "d">>), ProbeValue(<<"0", "a">>)}
  \/ probes.tab_value # ProbeValue(<<"0", "9">>)
  \/ ~(probes.ctrl_interrupted /\ ~probes.ctrl_done)
  \/ probes.raw_leak_detected

\* an Enter probe is expected to read a line feed only
SuspectedUnlessLineFeed(probes, suspicious_stty_change, suspicious_protocol_drift) ==
  \/ suspicious_stty_change
  \/ suspicious_protocol_drift
  \/ probes.enter_value # ProbeValue(<<"0", "a">>)
  \/ probes.tab_value # ProbeValue(<<"0", "9">>)
  \/ ~(probes.ctrl_interrupted /\ ~probes.ctrl_done)
  \/ probes.raw_leak_detected

\* suspected = any of the signals, with enter_ok, tab_ok and ctrl_ok as the code defines them
Suspected(probes, suspicious_stty_change, suspicious_protocol_drift) ==
  \/ suspicious_stty_change
  \/ suspicious_protocol_drift
  \/ probes.enter_value \notin {ProbeValue(<<"0", "d">>), ProbeValue(<<"0", "a">>)}
  \/ probes.tab_value # ProbeValue(<<"0", "9">>)
  \/ ~(probes.ctrl_interrupted /\ ~probes.ctrl_done)
  \/ probes.raw_leak_detected

\* the counts alone decide
LikelyProtocolLeakCountsOnly(probes, protocol_signals) ==
  \/ protocol_signals.caret_csi_count > 0
  \/ protocol_signals.raw_csi_u_count > 0
  \/ protocol_signals.raw_focus_toggle_count > 0

LikelyProtocolLeak(probes, protocol_signals) ==
  \/ protocol_signals.caret_csi_count > 0
  \/ protocol_signals.raw_csi_u_count > 0
  \/ protocol_signals.raw_focus_toggle_count > 0
  \/ probes.enter_value \in {ProbeValue(<<"1", "b">>), ProbeValue(<<"5", "b">>)}
  \/ probes.tab_value \in {ProbeValue(<<"1", "b">>), ProbeValue(<<"5", "b">>)}

\* one evidence line per suspicious mode row, then one for the keyboard protocol
DriftEvidence(terminal_protocols) ==
  [i \in DOMAIN terminal_protocols.modes.suspicious_changes |->
     [text |-> "terminal mode enabled after run", about |-> terminal_protocols.modes.suspicious_changes[i]]]
    \o (IF terminal_protocols.kitty_keyboard.suspicious
        THEN <<[text |-> "kitty keyboard state changed and remained enabled", about |-> terminal_protocols.kitty_keyboard]>>
        ELSE <<>>)

Classified(suspected, category, evidence) ==
  [status |-> "ok", suspected |-> Some(suspected), category |-> Some(category), evidence |-> evidence]

\* the protocol drift is looked at before the stty flags
VerdictDriftFirst(capture_errors, probe_timeouts, suspicious_stty_change, raw_leak_detected, suspicious_protocol_drift, suspected, likely_protocol_leak, drift_evidence) ==
  IF capture_errors # <<>>
  THEN [status |-> "inconclusive_capture_error", suspected |-> Nothing, category |-> Nothing, evidence |-> <<>>]
  ELSE IF probe_timeouts # <<>> /\ ~suspicious_stty_change /\ ~raw_leak_detected /\ ~suspicious_protocol_drift
  THEN [status |-> "inconclusive_probe_timeout", suspected |-> Nothing, category |-> Some("probe_timeout"),
        evidence |-> <<[text |-> "probe timeout(s)", about |-> probe_timeouts],
                       [text |-> "result is inconclusive because no key byte was captured", about |-> <<>>]>>]
  ELSE IF suspicious_protocol_drift
  THEN Classified(suspected, "terminal_protocol_state_drift", drift_evidence)
  ELSE IF suspicious_stty_change
  THEN Classified(suspected, "line_discipline_leak",
                  <<[text |-> "stty flag drift detected in isig/icanon/echo", about |-> <<>>]>>)
  ELSE IF suspected /\ likely_protocol_leak
  THEN Classified(suspected, "terminal_protocol_leak",
                  <<[text |-> "probe bytes look like CSI prefix (ESC/[)", about |-> <<>>],
                    [text |-> "CSI-style sequences observed in transcript", about |-> <<>>]>>)
  ELSE IF suspected
  THEN Classified(suspected, "input_probe_anomaly",
                  <<[text |-> "probe bytes unexpected without clear stty drift", about |-> <<>>]>>)
  ELSE Classified(suspected, "none", <<>>)

\* analysis_status, tty_pollution_suspected, suspected_category and evidence
Verdict(capture_errors, probe_timeouts, suspicious_stty_change, raw_leak_detected, suspicious_protocol_drift, suspected, likely_protocol_leak, drift_evidence) ==
  IF capture_errors # <<>>
  THEN [status |-> "inconclusive_capture_error", suspected |-> Nothing, category |-> Nothing, evidence |-> <<>>]
  ELSE IF probe_timeouts # <<>> /\ ~suspicious_stty_change /\ ~raw_leak_detected /\ ~suspicious_protocol_drift
  THEN [status |-> "inconclusive_probe_timeout", suspected |-> Nothing, category |-> Some("probe_timeout"),
        evidence |-> <<[text |-> "probe timeout(s)", about |-> probe_timeouts],
                       [text |-> "result is inconclusive because no key byte was captured", about |-> <<>>]>>]
  ELSE IF suspicious_stty_change
  THEN Classified(suspected, "line_discipline_leak",
                  <<[text |-> "stty flag drift detected in isig/icanon/echo", about |-> <<>>]>>)
  ELSE IF suspicious_protocol_drift
  THEN Classified(suspected, "terminal_protocol_state_drift", drift_evidence)
  ELSE IF suspected /\ likely_protocol_leak
  THEN Classified(suspected, "terminal_protocol_leak",
                  <<[text |-> "probe bytes look like CSI prefix (ESC/[)", about |-> <<>>],
                    [text |-> "CSI-style sequences observed in transcript", about |-> <<>>]>>)
  ELSE IF suspected
  THEN Classified(suspected, "input_probe_anomaly",
                  <<[text |-> "probe bytes unexpected without clear stty drift", about |-> <<>>]>>)
  ELSE Classified(suspected, "none", <<>>)

\* the summary dict, from the verdict and the parts it was drawn from
Summary(verdict, stty, probes, capture_errors, protocol_signals, terminal_protocols, probe_timeouts) ==
  [analysis_status |-> verdict.status,
   capture_errors |-> capture_errors,
   suspected_category |-> verdict.category,
   evidence |-> verdict.evidence,
   protocol_signals |-> protocol_signals,
   terminal_protocols |-> terminal_protocols,
   probe_timeouts |-> probe_timeouts,
   probes |-> probes,
   stty |-> stty,
   tty_pollution_suspected |-> verdict.suspected]

Judge(stty, probes, capture_errors, protocol_signals, terminal_protocols, suspicious_stty_change, suspicious_protocol_drift, probe_timeouts) ==
  Summary(Verdict(capture_errors, probe_timeouts, suspicious_stty_change, probes.raw_leak_detected,
                  suspicious_protocol_drift, Suspected(probes, suspicious_stty_change, suspicious_protocol_drift),
                  LikelyProtocolLeak(probes, protocol_signals), DriftEvidence(terminal_protocols)),
          stty, probes, capture_errors, protocol_signals, terminal_protocols, probe_timeouts)

Gather(stty, probes, capture_errors, protocol_signals, terminal_protocols) ==
  Judge(stty, probes, capture_errors, protocol_signals, terminal_protocols,
        SuspiciousSttyChange(stty), SuspiciousProtocolDrift(terminal_protocols), ProbeTimeouts(probes))

\* the verdict build_summary returns for the two stty reports, the transcript and the two snapshots
build_summary(before_text, after_text, session_text, protocol_before, protocol_after) ==
  Gather(IF before_text # <<>> /\ after_text # <<>> THEN summarize_stty_diff(before_text, after_text) ELSE NoSttyDiff,
         Probes(session_text),
         detect_capture_errors(session_text),
         detect_protocol_leak_signals(session_text),
         summarize_protocol_diff(protocol_before, protocol_after))

\* the lines the key probes of the harness leave in the transcript
EnterLines ==
  { <<>>,
    <<"_", "_", "I", "S", "S", "U", "E", "2", "6", "_", "E", "N", "T", "E", "R", "_", "P", "R", "O", "B", "E", "_", "_", "0", "d", "_", "_">>,
    <<"_", "_", "I", "S", "S", "U", "E", "2", "6", "_", "E", "N", "T", "E", "R", "_", "P", "R", "O", "B", "E", "_", "_", "0", "a", "_", "_">>,
    <<"_", "_", "I", "S", "S", "U", "E", "2", "6", "_", "E", "N", "T", "E", "R", "_", "P", "R", "O", "B", "E", "_", "_", "t", "i", "m", "e", "o", "u", "t", "_", "_">>,
    <<"_", "_", "I", "S", "S", "U", "E", "2", "6", "_", "E", "N", "T", "E", "R", "_", "P", "R", "O", "B", "E", "_", "_", "1", "b", "_", "_">> }

TabLines ==
  { <<>>,
    <<"_", "_", "I", "S", "S", "U", "E", "2", "6", "_", "T", "A", "B", "_", "P", "R", "O", "B", "E", "_", "_", "0", "9", "_", "_">>,
    <<"_", "_", "I", "S", "S", "U", "E", "2", "6", "_", "T", "A", "B", "_", "P", "R", "O", "B", "E", "_", "_", "t", "i", "m", "e", "o", "u", "t", "_", "_">> }

CtrlInterruptedLine == <<"_", "_", "I", "S", "S", "U", "E", "2", "6", "_", "C", "T", "R", "L", "_", "I", "N", "T", "E", "R", "R", "U", "P", "T", "E", "D", "_", "_">>

CtrlDoneLine == <<"_", "_", "I", "S", "S", "U", "E", "2", "6", "_", "C", "T", "R", "L", "_", "D", "O", "N", "E", "_", "_">>

CtrlLines == {<<>>, CtrlInterruptedLine, CtrlInterruptedLine \o <<"\n">> \o CtrlDoneLine}

\* what else a transcript may hold: an echoed arrow key, a raw CSI u sequence, and the four capture failures
RawLeakLine == <<"^", "[", "[", "A">>

RawCsiULine == <<"ESC", "[", "5", "u">>

TracebackLine == <<"T", "r", "a", "c", "e", "b", "a", "c", "k", " ", "(", "m", "o", "s", "t", " ", "r", "e", "c", "e", "n", "t", " ", "c", "a", "l", "l", " ", "l", "a", "s", "t", ")", ":">>

TermiosErrorLine == <<"t", "e", "r", "m", "i", "o", "s", ".", "e", "r", "r", "o", "r">>

IoctlErrorLine == <<"I", "n", "a", "p", "p", "r", "o", "p", "r", "i", "a", "t", "e", " ", "i", "o", "c", "t", "l", " ", "f", "o", "r", " ", "d", "e", "v", "i", "c", "e">>

SyntaxErrorLine == <<"S", "y", "n", "t", "a", "x", "E", "r", "r", "o", "r", ":">>

ExtraLines == {RawLeakLine, RawCsiULine, TracebackLine, TermiosErrorLine, IoctlErrorLine, SyntaxErrorLine}

RECURSIVE ExtraLists(_)
\* the lists of at most n extra lines
ExtraLists(n) == IF n = 0 THEN {<<>>} ELSE ExtraLists(n - 1) \cup {l \o <<x>> : l \in ExtraLists(n - 1), x \in ExtraLines}

\* session.typescript: the probe lines, then the extra lines, each ended by a newline
SessionText(session) ==
  Join([i \in 1..3 |-> IF <<session.enter, session.tab, session.ctrl>>[i] = <<>> THEN <<>>
                         ELSE <<session.enter, session.tab, session.ctrl>>[i] \o <<"\n">>])
    \o Join([i \in 1..Len(session.extras) |-> session.extras[i] \o <<"\n">>])

\* the stty reports before and after the run
NoReports == [a |-> <<>>, b |-> <<>>]

SameReports == [a |-> <<<<"e", "c", "h", "o">>, <<"i", "c", "a", "n", "o", "n">>>>, b |-> <<<<"e", "c", "h", "o">>, <<"i", "c", "a", "n", "o", "n">>>>]

EchoReadOff == [a |-> <<<<"e", "c", "h", "o">>, <<"i", "c", "a", "n", "o", "n">>>>, b |-> <<<<"9", "-", "e", "c", "h", "o">>, <<"i", "c", "a", "n", "o", "n">>>>]

EchoPrintedOff == [a |-> <<<<"e", "c", "h", "o">>, <<"i", "c", "a", "n", "o", "n">>>>, b |-> <<<<"-", "e", "c", "h", "o">>, <<"i", "c", "a", "n", "o", "n">>>>]

AlternateScreen(entry) == [status |-> Some("ok"), decrqm |-> Some([k \in {StrOf(1049)} |-> entry]), kitty |-> Some(Nothing)]

MouseX10(entry) == [status |-> Some("ok"), decrqm |-> Some([k \in {StrOf(1000)} |-> entry]), kitty |-> Some(Nothing)]

KeyboardOnly(current) == [status |-> Some("ok"), decrqm |-> Some(EmptyDict), kitty |-> Some(current)]

\* the snapshots before and after the run
NoSnapshots == [before |-> AbsentSnapshot, after |-> AbsentSnapshot]

BothSkipped == [before |-> SkippedSnapshot, after |-> SkippedSnapshot]

SameSnapshots ==
  [before |-> AlternateScreen([value |-> Some(2), state |-> "reset"]),
   after |-> AlternateScreen([value |-> Some(2), state |-> "reset"])]

AlternateScreenLeftOn ==
  [before |-> AlternateScreen([value |-> Some(2), state |-> "reset"]),
   after |-> AlternateScreen([value |-> Some(1), state |-> "set"])]

KeyboardLeftOn == [before |-> KeyboardOnly(Nothing), after |-> KeyboardOnly(Some(<<"1">>))]

MouseLeftOn ==
  [before |-> MouseX10([value |-> Some(2), state |-> "reset"]),
   after |-> MouseX10([value |-> Some(1), state |-> "set"])]

BothFailed == [before |-> ErrorSnapshot, after |-> ErrorSnapshot]

\* the files of one run besides the transcript
RunCases ==
  { [stty |-> NoReports, protocol |-> NoSnapshots],
    [stty |-> NoReports, protocol |-> BothFailed],
    [stty |-> SameReports, protocol |-> MouseLeftOn],
    [stty |-> SameReports, protocol |-> BothSkipped],
    [stty |-> EchoReadOff, protocol |-> BothSkipped],
    [stty |-> SameReports, protocol |-> SameSnapshots],
    [stty |-> SameReports, protocol |-> AlternateScreenLeftOn],
    [stty |-> SameReports, protocol |-> KeyboardLeftOn],
    [stty |-> EchoReadOff, protocol |-> SameSnapshots],
    [stty |-> EchoReadOff, protocol |-> AlternateScreenLeftOn],
    [stty |-> EchoPrintedOff, protocol |-> SameSnapshots] }

InitVerdict ==
  /\ tSession \in [enter : EnterLines, tab : TabLines, ctrl : CtrlLines, extras : ExtraLists(MaxExtras)]
  /\ \E c \in RunCases :
       /\ sSrc = [kind |-> "verdict", a |-> c.stty.a, b |-> c.stty.b]
       /\ sA = ReportText(c.stty.a, PlainLayout)
       /\ sB = ReportText(c.stty.b, PlainLayout)
       /\ pBefore = c.protocol.before
       /\ pAfter = c.protocol.after
  /\ sOut = [done |-> FALSE]
  /\ pOut = [done |-> FALSE]
  /\ vOut = [done |-> FALSE]
  /\ DriversIdle
  /\ MainIdle("analyze")
  /\ CodecIdle

\* summary = build_summary(out_dir, runner_exit)
BuildSummary ==
  /\ pc = "analyze"
  /\ sSrc.kind = "verdict"
  /\ ~vOut.done
  /\ vOut' = [done |-> TRUE, summary |-> build_summary(sA, sB, SessionText(tSession), pBefore, pAfter)]
  /\ UNCHANGED <<inputVars, queueVars, driverVars, ttyVars, codeVars, codecVars, sttyVars, protoVars, tSession>>

NextVerdict == BuildSummary

SpecVerdict == InitVerdict /\ [][NextVerdict]_vars

----------------------------------------------------------------------------
\* Properties.

\* positions inside capture_snapshot after the tty precondition
InsideCapture == {"cs_save", "cs_setraw", "cs_nonblock", "cs_flush", "cs_send", "cs_read", "fin_attr", "fin_flags", "cs_result"}

\* positions of main after capture_snapshot has returned or raised
AfterCapture == {"main_except", "write_doc", "main_return", "exited", "crashed"}

Terminated == pc \in {"exited", "crashed"}

RECURSIVE AllQueries(_)
\* the bytes of the first k queries of the configured sequence
AllQueries(k) == IF k = 0 THEN <<>> ELSE AllQueries(k - 1) \o Query(k)

IsPrefix(a, b) == Len(a) <= Len(b) /\ a = SubSeq(b, 1, Len(a))

\* C1: once capture_snapshot has been left, by return or by any exception, the
\* terminal attributes and the O_NONBLOCK flag of the read descriptor are the
\* ones the process started with.
C1_RestoredOnEveryExit ==
  pc \in AfterCapture => termAttr = entryAttr /\ fdNonblock = entryNonblock

\* C2: when stdin or stdout is not a terminal, nothing is ever changed: the
\* attributes and the flags stay as they were, no byte is written or read,
\* capture_snapshot never gets past its precondition, and what it raises is the
\* RuntimeError naming the descriptor.
C2_NoMutationWithoutTty ==
  (~readIsTty \/ ~writeIsTty) =>
    /\ termAttr = entryAttr
    /\ fdNonblock = entryNonblock
    /\ wire = <<>>
    /\ ~ioRead
    /\ pc \notin InsideCapture
    /\ pc = "main_except" =>
         /\ pending.type = "RuntimeError"
         /\ pending.msg = (IF ~readIsTty THEN "stdin is not a tty" ELSE "stdout is not a tty")

C2_Witness ==
  pc = "main_except" /\ readIsTty /\ ~writeIsTty /\ pending.msg = "stdout is not a tty"

\* C3: the time the capture has run never exceeds the sum of its read windows:
\* one per-query timeout for each configured mode plus the keyboard timeout.
C3_CaptureWithinTimeouts ==
  pc \in InsideCapture => now <= Len(modes) * PerQueryTimeout + KittyTimeout

\* C4: the bytes on the wire are always a prefix of the configured queries in
\* order followed by the keyboard query; a byte of query i is on the wire only
\* when the read windows of all earlier queries have closed; while a window is
\* open exactly the queries up to its own have been written; and a capture
\* that ran to its end has written all of them, each once.
C4_QueriesSequential ==
  /\ IsPrefix(wire, AllQueries(Len(modes) + 1))
  /\ \A i \in 1..(Len(modes) + 1) : Len(wire) > Len(AllQueries(i - 1)) => windowsClosed >= i - 1
  /\ pc = "cs_read" => wire = AllQueries(idx) /\ windowsClosed = idx - 1
  /\ pc = "cs_send" => wire = AllQueries(idx - 1) \o SubSeq(Query(idx), 1, offset) /\ windowsClosed = idx - 1
  /\ pc = "cs_result" => wire = AllQueries(Len(modes) + 1) /\ windowsClosed = Len(modes) + 1

C4_Witness ==
  pc = "cs_send" /\ Len(modes) = 2 /\ idx = 3 /\ offset > 0 /\ windowsClosed = 2

\* C5: the deadline of an open read window is the time it opened plus the
\* timeout of its query, whatever time earlier queries took; a window that
\* closes on its deadline has lasted its whole timeout; and a capture that
\* returns a result has sent every query and closed a window for each.
C5_OwnWindowPerQuery ==
  /\ pc = "cs_read" =>
       /\ deadline = winOpenedAt + (IF idx <= Len(modes) THEN Max(1, argPerQuery) ELSE Max(1, argKitty))
       /\ now <= deadline
  /\ lastClose.why = "timeout" => lastClose.at - lastClose.opened = lastClose.timeout
  /\ pc = "cs_result" => windowsClosed = Len(modes) + 1 /\ wire = AllQueries(Len(modes) + 1)

C5_Witness ==
  /\ pc = "cs_read"
  /\ idx = 2
  /\ lastClose.why = "timeout"
  /\ stalls > 0
  /\ winOpenedAt > PerQueryTimeout
  /\ now = deadline

\* the spellings of an empty or dumb TERM among the inputs
DumbSpellings == {<<>>, <<"d", "u", "m", "b">>, <<"D", "u", "m", "b">>}

\* C6: with TERM empty or dumb in any letter case, the terminal is never
\* touched (attributes and flags unchanged, nothing written, nothing read,
\* capture_snapshot not entered) and the document written has status
\* skipped_unsupported_term, no mode entries, response_count 0, no keyboard
\* responses and current = None.
C6_UnsupportedTermSkipsQuerying ==
  envTerm \in DumbSpellings =>
    /\ termAttr = entryAttr
    /\ fdNonblock = entryNonblock
    /\ wire = <<>>
    /\ ~ioRead
    /\ pc \notin InsideCapture \cup {"cs_isatty", "main_except"}
    /\ output.status # "no file" =>
         /\ output.status = "skipped_unsupported_term"
         /\ DOMAIN output.by_mode = {}
         /\ output.response_count = 0
         /\ output.responses = <<>>
         /\ output.current = Nothing
    /\ pc = "exited" => output.status = "skipped_unsupported_term"

C6_Witness ==
  pc = "exited" /\ envTerm = <<"D", "u", "m", "b">> /\ output.status = "skipped_unsupported_term"

\* C7: an exception raised by capture_snapshot never ends main: it is handled,
\* the snapshot gets status error with the exception's text as its message,
\* and that is what the written document holds.
C7_CaptureFailuresBecomeErrorStatus ==
  pending.where = "capture_snapshot" =>
    /\ pc # "crashed"
    /\ pc \in {"write_doc", "main_return", "exited"} =>
         snapshot.status = "error" /\ snapshot.error = pending.msg /\ snapshot.error # ""
    /\ pc \in {"main_return", "exited"} =>
         output.status = "error" /\ output.error = pending.msg

C7_Witness ==
  pc = "exited" /\ pending.msg = "restoring fcntl failed" /\ output.status = "error"

\* C8: every run of main that has ended has written its document.
C8_DocumentAlwaysEmitted ==
  Terminated => output.status # "no file"

\* C9: when the process has ended, its exit code is 0 exactly when the written
\* document has status ok or skipped_unsupported_term and 1 exactly when it has
\* status error, and the written status is one of the three.
C9_ExitCodeMatchesStatus ==
  Terminated =>
    /\ exitCode = 0 <=> output.status \in {"ok", "skipped_unsupported_term"}
    /\ exitCode = 1 <=> output.status = "error"
    /\ output.status \in {"ok", "skipped_unsupported_term", "error"}

\* the mode reports of the buffer, in buffer order
ReportsIn(raw) == DecrpmFindAll(raw, 1)

\* C10: the decoded map has a single entry per mode number, and for every mode
\* number reported in the buffer that entry holds the value of the last report
\* of that number in buffer order.
C10_OneResponsePerModeLastWins ==
  (dResult.done /\ dResult.error = "none") =>
    LET reports == ReportsIn(dBuf)
    IN /\ \A k1, k2 \in DOMAIN dResult.by_mode : IntOf(k1) = IntOf(k2) => k1 = k2
       /\ \A i \in 1..Len(reports) :
            (\A j \in (i + 1)..Len(reports) : IntOf(reports[j].mode) # IntOf(reports[i].mode)) =>
               \A k \in DOMAIN dResult.by_mode :
                  IntOf(k) = IntOf(reports[i].mode) => dResult.by_mode[k].value = IntOf(reports[i].value)

----------------------------------------------------------------------------
\* Decoding of synthetic terminal output.

\* the five named response states, and unknown for every other value
NamedState(v) ==
  IF v = 0 THEN "not_recognized"
  ELSE IF v = 1 THEN "set"
  ELSE IF v = 2 THEN "reset"
  ELSE IF v = 3 THEN "permanently_set"
  ELSE IF v = 4 THEN "permanently_reset"
  ELSE "unknown"

\* C11: decoding the concatenation of one synthetic response per listed mode
\* gives a map whose keys are exactly the listed modes, each with the raw
\* value it was answered with and the state that value names (unknown for a
\* value outside 0..4).
C11_SyntheticResponsesDecoded ==
  (dSrc.kind = "responses" /\ dResult.done) =>
    /\ DOMAIN dResult.by_mode = {StrOf(dSrc.items[i]) : i \in DOMAIN dSrc.items}
    /\ \A i \in DOMAIN dSrc.items :
         LET v == dSrc.val[dSrc.items[i]]
             e == dResult.by_mode[StrOf(dSrc.items[i])]
         IN e.value = v /\ e.state = NamedState(v)

\* three responses decoded, one of them with a value outside 0..4
C11_Witness ==
  /\ dSrc.kind = "responses" /\ dResult.done
  /\ dSrc.items = <<1049, 2, 1>>
  /\ dSrc.val[1049] = 12 /\ dSrc.val[2] = 4 /\ dSrc.val[1] = 0
  /\ DOMAIN dResult.by_mode = {<<"1", "0", "4", "9">>, <<"2">>, <<"1">>}

\* C12: a terminal that answers nothing and only echoes the queries decodes
\* to an empty mode map.
C12_EchoedQueriesDecodeToNothing ==
  (dSrc.kind = "echo" /\ dResult.done) => DOMAIN dResult.by_mode = {}

\* two mode queries and the keyboard query echoed back and decoded
C12_Witness ==
  /\ dSrc.kind = "echo" /\ dResult.done
  /\ dSrc.items = <<1, 1049, KeyboardQuery>>
  /\ dBuf = <<"ESC", "[", "?", "1", "$", "p", "ESC", "[", "?", "1", "0", "4", "9", "$", "p", "ESC", "[", "?", "u">>

----------------------------------------------------------------------------
\* The keyboard-protocol state of a snapshot.

\* the token a delivered chunk carries when it is a whole keyboard-protocol
\* response, the empty token when it is not
KeyboardTokenOf(data) ==
  IF data = <<"ESC", "[", "?", "1", "u">> THEN <<"1">>
  ELSE IF data = <<"ESC", "[", "?", "3", "u">> THEN <<"3">>
  ELSE <<>>

\* the tokens of the keyboard-protocol responses delivered in the windows wins, in arrival order
HeardTokens(wins) ==
  LET kb == SelectSeq(heard, LAMBDA h : h.win \in wins /\ KeyboardTokenOf(h.data) # <<>>)
  IN [i \in 1..Len(kb) |-> KeyboardTokenOf(kb[i].data)]

KeyboardWindow == {Len(modes) + 1}

AnyWindow == 1..(Len(modes) + 1)

\* the keyboard state lists the responses read in the keyboard window in
\* order, and current is the last of them
KeyboardStateListsWindow ==
  LET kb == HeardTokens(KeyboardWindow)
  IN /\ snapshot.responses = kb
     /\ kb # <<>> => snapshot.current = Some(kb[Len(kb)])

\* C13 as amended: the keyboard-protocol state lists every response token
\* read during the keyboard-query window in buffer order and current is the
\* last of them; current is None exactly when no whole keyboard-protocol
\* response was read during the keyboard-query window.
C13_KeyboardStateOfKeyboardWindow ==
  snapshot.status = "ok" =>
    /\ KeyboardStateListsWindow
    /\ snapshot.current = Nothing <=> HeardTokens(KeyboardWindow) = <<>>

\* two different responses read in the keyboard window, the later one current
C13_Witness ==
  /\ snapshot.status = "ok"
  /\ HeardTokens(KeyboardWindow) = << <<"1">>, <<"3">> >>
  /\ snapshot.current = Some(<<"3">>)

\* C13 as stated: the keyboard-protocol state lists every matched response
\* token in buffer order and current is the last of them; current is None
\* exactly when no keyboard-protocol response was received before the
\* keyboard timeout.
C13_CurrentNoneIffNoResponseReceived ==
  snapshot.status = "ok" =>
    /\ KeyboardStateListsWindow
    /\ snapshot.current = Nothing <=> HeardTokens(AnyWindow) = <<>>

----------------------------------------------------------------------------
\* Decoding of buffers with malformed fragments in them.

\* the well-formed mode reports among the fragments, with what each one says
WellFormedReports ==
  { [bytes |-> <<"ESC", "[", "?", "1", ";", "1", "$", "y">>, mode |-> <<"1">>, value |-> 1, state |-> "set"],
    [bytes |-> <<"ESC", "[", "?", "1", ";", "2", "$", "y">>, mode |-> <<"1">>, value |-> 2, state |-> "reset"],
    [bytes |-> <<"ESC", "[", "?", "0", "1", ";", "3", "$", "y">>, mode |-> <<"0", "1">>, value |-> 3, state |-> "permanently_set"],
    [bytes |-> <<"ESC", "[", "?", "2", ";", "5", "$", "y">>, mode |-> <<"2">>, value |-> 5, state |-> "unknown"] }

\* the well-formed keyboard-protocol responses among the fragments
WellFormedKeyboard ==
  { [bytes |-> <<"ESC", "[", "?", "1", ";", "2", "u">>, token |-> <<"1", ";", "2">>] }

FactOf(facts, f) == CHOOSE w \in facts : w.bytes = f

IsFact(facts, f) == \E w \in facts : w.bytes = f

\* C14: decoding never fails: whatever truncated, interleaved or malformed
\* fragments a buffer holds, both decoders return a result, made of exactly
\* the well-formed responses in it: the mode map has the modes of the
\* well-formed reports, each with the last value reported for it, the
\* keyboard state lists the well-formed keyboard responses in order, and a
\* buffer without a whole response decodes to the empty map and current = None.
C14_MalformedFragmentsAreSkipped ==
  (dSrc.kind = "fragments" /\ dResult.done) =>
   dResult.error = "none" /\
    LET reports == SelectSeq(dSrc.items, LAMBDA f : IsFact(WellFormedReports, f))
        keyboard == SelectSeq(dSrc.items, LAMBDA f : IsFact(WellFormedKeyboard, f))
    IN /\ DOMAIN dResult.by_mode = {FactOf(WellFormedReports, reports[i]).mode : i \in DOMAIN reports}
       /\ \A i \in DOMAIN reports :
            LET w == FactOf(WellFormedReports, reports[i])
            IN (\A j \in (i + 1)..Len(reports) : FactOf(WellFormedReports, reports[j]).mode # w.mode)
                 => dResult.by_mode[w.mode] = [value |-> w.value, state |-> w.state]
       /\ dResult.kitty.responses = [i \in DOMAIN keyboard |-> FactOf(WellFormedKeyboard, keyboard[i]).token]
       /\ dResult.kitty.current = (IF keyboard = <<>> THEN Nothing ELSE Some(FactOf(WellFormedKeyboard, keyboard[Len(keyboard)]).token))

----------------------------------------------------------------------------
\* The line-discipline reports and their diff.

SttyDone == sSrc.kind \in {"reports", "relaid"} /\ sOut.done

\* the report names the flag bare
SaysOn(words, f) == \E i \in DOMAIN words : words[i] = f

\* the report names the flag with the '-' prefix, after whitespace or after a digit
SaysOff(words, f) == \E i \in DOMAIN words : words[i] = <<"-">> \o f \/ words[i] = <<"9", "-">> \o f

\* C15: for each of the seven tracked flags parse_stty_states returns true
\* if the bare flag name appears as a token in the report, false if the
\* '-'-prefixed form (as printed by stty, e.g. ' -echo') appears, and None if
\* neither appears; None is never reported as false.
C15_FlagStatesAsReported ==
  SttyDone =>
    \A f \in FlagSet :
      sOut.ab.before[f] = (IF SaysOn(sSrc.a, f) THEN Some(TRUE)
                           ELSE IF SaysOff(sSrc.a, f) THEN Some(FALSE)
                           ELSE Nothing)

\* C16: two reports that differ only in letter case or in the whitespace
\* between tokens parse to the same flag mapping.
C16_CaseAndWhitespaceInvariant ==
  (SttyDone /\ sSrc.kind = "relaid") => sOut.ab.before = sOut.ab.after

\* the same two flags laid out in upper case with double blanks and in lower
\* case with single blanks, one parsed as on and one as off
C16_Witness ==
  /\ SttyDone /\ sSrc.kind = "relaid"
  /\ sSrc.la = [upper |-> TRUE, gap |-> <<" ", " ">>] /\ sSrc.lb = PlainLayout
  /\ sA # sB
  /\ sOut.ab.before[<<"i", "c", "a", "n", "o", "n">>] = Some(TRUE)
  /\ sOut.ab.before[<<"e", "c", "h", "o">>] = Some(FALSE)

FlagIndex(f) == CHOOSE i \in DOMAIN IMPORTANT_STTY_FLAGS : IMPORTANT_STTY_FLAGS[i] = f

\* C17: the diff has an entry for a flag exactly when the before and the
\* after value of that flag are both known and differ; the entry carries the
\* two values, a flag unknown on either side never appears, and the entries
\* are in the fixed flag order.
C17_ChangesOnlyWhereBothKnown ==
  SttyDone =>
    LET d == sOut.ab
    IN /\ \A f \in FlagSet :
            (\E i \in DOMAIN d.changes : d.changes[i].flag = f)
              <=> (d.before[f] # Nothing /\ d.after[f] # Nothing /\ d.before[f] # d.after[f])
       /\ \A i \in DOMAIN d.changes :
            /\ Some(d.changes[i].before) = d.before[d.changes[i].flag]
            /\ Some(d.changes[i].after) = d.after[d.changes[i].flag]
       /\ \A i, j \in DOMAIN d.changes : i < j => FlagIndex(d.changes[i].flag) < FlagIndex(d.changes[j].flag)

\* echo went off and icanon is known before and unknown after: one entry, for echo
C17_Witness ==
  /\ SttyDone
  /\ sOut.ab.before[<<"i", "c", "a", "n", "o", "n">>] = Some(TRUE) /\ sOut.ab.after[<<"i", "c", "a", "n", "o", "n">>] = Nothing
  /\ sOut.ab.changes = <<[flag |-> <<"e", "c", "h", "o">>, before |-> TRUE, after |-> FALSE]>>

\* C18: the changes of diff(A, B) are the changes of diff(B, A) with before
\* and after exchanged, for the same flags in the same order.
C18_DiffSymmetricUnderSwap ==
  SttyDone =>
    /\ Len(sOut.ba.changes) = Len(sOut.ab.changes)
    /\ \A i \in DOMAIN sOut.ab.changes :
         sOut.ba.changes[i] = [flag |-> sOut.ab.changes[i].flag,
                              before |-> sOut.ab.changes[i].after,
                              after |-> sOut.ab.changes[i].before]

\* two flags changed, listed in flag order in both directions
C18_Witness ==
  /\ SttyDone
  /\ sSrc.a = <<<<"e", "c", "h", "o">>, <<"i", "c", "a", "n", "o", "n">>>>
  /\ sOut.ab.changes = <<[flag |-> <<"i", "c", "a", "n", "o", "n">>, before |-> TRUE, after |-> FALSE], [flag |-> <<"e", "c", "h", "o">>, before |-> TRUE, after |-> FALSE]>>
  /\ sOut.ba.changes = <<[flag |-> <<"i", "c", "a", "n", "o", "n">>, before |-> FALSE, after |-> TRUE], [flag |-> <<"e", "c", "h", "o">>, before |-> FALSE, after |-> TRUE]>>

----------------------------------------------------------------------------
\* The protocol diff.

\* every mouse-tracking variant, focus tracking, bracketed paste,
\* synchronized output and the alternate screen among the known modes
KnownTrackingModes ==
  {<<"1", "0", "0", "0">>, <<"1", "0", "0", "2">>, <<"1", "0", "0", "3">>, <<"1", "0", "0", "4">>,
   <<"1", "0", "0", "5">>, <<"1", "0", "0", "6">>, <<"1", "0", "1", "5">>, <<"1", "0", "1", "6">>,
   <<"1", "0", "4", "9">>, <<"2", "0", "0", "4">>, <<"2", "0", "2", "6">>}

RowsOf(rows) == {rows[i] : i \in DOMAIN rows}

\* C20: a changed mode is recorded as a suspicious enable exactly when it
\* is one of the known tracking modes (every mouse-tracking variant, focus
\* tracking, bracketed paste, synchronized output, alternate screen), it was
\* not enabled before (state not set or permanently_set) and it is enabled
\* after; the opposite transition and a mode enabled before are never suspicious.
C20_SuspiciousEnableExactly ==
  pOut.done =>
    \A row \in RowsOf(pOut.diff.modes.changes) :
      (row \in RowsOf(pOut.diff.modes.suspicious_changes))
        <=> /\ row.mode \in KnownTrackingModes
            /\ row.before.state \notin {"set", "permanently_set"}
            /\ row.after.state \in {"set", "permanently_set"}

\* the transcript lines that carry a capture-error marker
CaptureErrorLines == {TracebackLine, TermiosErrorLine, IoctlErrorLine, SyntaxErrorLine}

HasCaptureErrorLine == \E i \in DOMAIN tSession.extras : tSession.extras[i] \in CaptureErrorLines

\* C19: when the transcript contains a capture-error marker, the verdict has status
\* inconclusive_capture_error, no category, no suspected value and no evidence, whatever
\* mode drift, line-discipline drift, probe value or leak pattern the inputs hold.
C19_CaptureErrorOverridesEverything ==
  (vOut.done /\ HasCaptureErrorLine) =>
    /\ vOut.summary.analysis_status = "inconclusive_capture_error"
    /\ vOut.summary.suspected_category = Nothing
    /\ vOut.summary.tty_pollution_suspected = Nothing
    /\ vOut.summary.evidence = <<>>

\* a termios.error line in a run that also left echo off and the alternate screen on and read ESC for Enter
C19_Witness ==
  /\ vOut.done
  /\ tSession.extras = <<TermiosErrorLine>>
  /\ vOut.summary.probes.enter_value = Some(<<"1", "b">>)
  /\ vOut.summary.stty.changes # <<>>
  /\ vOut.summary.terminal_protocols.modes.suspicious_changes # <<>>
  /\ vOut.summary.analysis_status = "inconclusive_capture_error"
  /\ vOut.summary.evidence = <<>>

----------------------------------------------------------------------------
\* The verdict, read against the files it was built from.

\* the byte between PROBE__ and the closing __ of a probe line, Nothing without the line
WrittenByte(line, head) == IF line = <<>> THEN Nothing ELSE Some(SubSeq(line, head + 1, Len(line) - 2))

EnterByte == WrittenByte(tSession.enter, 23)

TabByte == WrittenByte(tSession.tab, 21)

TimeoutWord == <<"t", "i", "m", "e", "o", "u", "t">>

HasExtra(line) == \E i \in DOMAIN tSession.extras : tSession.extras[i] = line

\* isig, icanon or echo is on in the report before and off in the report after
ReportsShowLeak ==
  \E f \in {<<"i", "s", "i", "g">>, <<"i", "c", "a", "n", "o", "n">>, <<"e", "c", "h", "o">>} : SaysOn(sSrc.a, f) /\ SaysOff(sSrc.b, f)

ModeEnabledIn(snap, mode) ==
  /\ snap.decrqm # Nothing
  /\ mode \in DOMAIN snap.decrqm[1]
  /\ snap.decrqm[1][mode].state \in {"set", "permanently_set"}

\* a mode of the suspicious set that was not enabled before and is enabled after
SnapshotsShowSuspiciousEnable ==
  \E mode \in KnownTrackingModes : ~ModeEnabledIn(pBefore, mode) /\ ModeEnabledIn(pAfter, mode)

KeyboardCurrentIn(snap) == IF snap.kitty = Nothing THEN Nothing ELSE snap.kitty[1]

\* the keyboard-protocol current value changed and is non-empty after the run
SnapshotsShowKeyboardLeftOn ==
  /\ KeyboardCurrentIn(pBefore) # KeyboardCurrentIn(pAfter)
  /\ KeyboardCurrentIn(pAfter) # Nothing
  /\ KeyboardCurrentIn(pAfter) # Some(<<>>)

IsProbeTimeoutVerdict ==
  /\ vOut.summary.analysis_status = "inconclusive_probe_timeout"
  /\ vOut.summary.suspected_category = Some("probe_timeout")
  /\ vOut.summary.tty_pollution_suspected = Nothing

ProbeTimedOutQuietly ==
  /\ vOut.done
  /\ ~HasCaptureErrorLine
  /\ EnterByte = Some(TimeoutWord) \/ TabByte = Some(TimeoutWord)
  /\ ~ReportsShowLeak
  /\ ~HasExtra(RawLeakLine)
  /\ ~SnapshotsShowSuspiciousEnable

\* C21 (as stated): with no capture error, a timed-out Enter or Tab probe and no
\* line-discipline drift, no raw-leak pattern and no suspicious mode enable, the
\* verdict is inconclusive_probe_timeout / probe_timeout with suspected None.
C21_TimeoutWithoutModeEnableIsInconclusive == ProbeTimedOutQuietly => IsProbeTimeoutVerdict

\* C21 (amended): the same, when in addition the keyboard-protocol current value
\* did not change to a non-empty value; a keyboard protocol left on is drift and
\* takes the verdict away from the probe timeout.
C21_TimeoutWithoutDriftIsInconclusive ==
  (ProbeTimedOutQuietly /\ ~SnapshotsShowKeyboardLeftOn) => IsProbeTimeoutVerdict

\* Enter and Tab both timed out and nothing else is in the files
C21_Witness ==
  /\ ProbeTimedOutQuietly
  /\ EnterByte = Some(TimeoutWord)
  /\ TabByte = Some(TimeoutWord)
  /\ tSession.extras = <<>>
  /\ pBefore = pAfter
  /\ vOut.summary.probe_timeouts = <<"enter", "tab">>
  /\ IsProbeTimeoutVerdict

\* C22: with no capture error, whenever the report after the run shows isig,
\* icanon or echo off and the report before shows it on, the verdict has category
\* line_discipline_leak and suspected = true, whatever the snapshots, the probe
\* values (timeouts included) and the transcript patterns are.
C22_LineDisciplineLeakPreempts ==
  (vOut.done /\ ~HasCaptureErrorLine /\ ReportsShowLeak) =>
    /\ vOut.summary.suspected_category = Some("line_discipline_leak")
    /\ vOut.summary.tty_pollution_suspected = Some(TRUE)

\* C23: with no capture error and no line-discipline leak, a suspicious mode
\* enable or a keyboard-protocol current value that changed and is non-empty after
\* the run yields status ok, category terminal_protocol_state_drift and
\* suspected = true, whatever the probe values and transcript patterns are.
C23_ProtocolDriftClassified ==
  (/\ vOut.done
   /\ ~HasCaptureErrorLine
   /\ ~ReportsShowLeak
   /\ SnapshotsShowSuspiciousEnable \/ SnapshotsShowKeyboardLeftOn) =>
    /\ vOut.summary.analysis_status = "ok"
    /\ vOut.summary.suspected_category = Some("terminal_protocol_state_drift")
    /\ vOut.summary.tty_pollution_suspected = Some(TRUE)

EnterByteOk == EnterByte \in {Some(<<"0", "d">>), Some(<<"0", "a">>)}

TabByteOk == TabByte = Some(<<"0", "9">>)

\* CTRL_INTERRUPTED is in the transcript and CTRL_DONE is not
CtrlProbeOk == tSession.ctrl = CtrlInterruptedLine

\* the Enter or the Tab probe read ESC or '['
ProbeByteIsPrefix ==
  \/ EnterByte \in {Some(<<"1", "b">>), Some(<<"5", "b">>)}
  \/ TabByte \in {Some(<<"1", "b">>), Some(<<"5", "b">>)}

\* a line that one of the three CSI-fragment patterns counts
TranscriptHasCsiFragment == HasExtra(RawLeakLine) \/ HasExtra(RawCsiULine)

\* no capture error, no probe-timeout verdict, no line-discipline leak, no protocol drift
HeuristicsDecide ==
  /\ vOut.done
  /\ ~HasCaptureErrorLine
  /\ vOut.summary.analysis_status # "inconclusive_probe_timeout"
  /\ ~ReportsShowLeak
  /\ ~SnapshotsShowSuspiciousEnable
  /\ ~SnapshotsShowKeyboardLeftOn

CategoryIs(category, suspected) ==
  /\ vOut.summary.suspected_category = Some(category)
  /\ vOut.summary.tty_pollution_suspected = Some(suspected)

\* C24 (as stated): among the verdicts the heuristics decide, an unexpected Enter
\* or Tab probe byte, a raw-leak pattern or a non-zero CSI-fragment count gives
\* suspected = true, with category terminal_protocol_leak when a probe byte is 1b
\* or 5b and input_probe_anomaly otherwise; none of them gives category none with
\* suspected = false.
C24_HeuristicCategoryByProbeByte ==
  HeuristicsDecide =>
    IF ~EnterByteOk \/ ~TabByteOk \/ HasExtra(RawLeakLine) \/ TranscriptHasCsiFragment
    THEN IF ProbeByteIsPrefix
         THEN CategoryIs("terminal_protocol_leak", TRUE)
         ELSE CategoryIs("input_probe_anomaly", TRUE)
    ELSE CategoryIs("none", FALSE)

\* C24 (amended): the verdict is suspected = true when the Enter byte is not 0d or
\* 0a, the Tab byte is not 09, the Ctrl-C probe failed or a raw-leak pattern is
\* present; its category is then terminal_protocol_leak when a CSI-fragment count
\* is non-zero or a probe byte is 1b or 5b, and input_probe_anomaly otherwise.
\* With none of the four the category is none and suspected = false, whatever
\* the CSI-fragment counts are.
C24_HeuristicCategoryBySignals ==
  HeuristicsDecide =>
    IF ~EnterByteOk \/ ~TabByteOk \/ ~CtrlProbeOk \/ HasExtra(RawLeakLine)
    THEN IF TranscriptHasCsiFragment \/ ProbeByteIsPrefix
         THEN CategoryIs("terminal_protocol_leak", TRUE)
         ELSE CategoryIs("input_probe_anomaly", TRUE)
    ELSE CategoryIs("none", FALSE)

\* an Enter probe that read ESC in a transcript without any CSI fragment
C24_Witness ==
  /\ HeuristicsDecide
  /\ EnterByte = Some(<<"1", "b">>)
  /\ TabByteOk
  /\ CtrlProbeOk
  /\ tSession.extras = <<>>
  /\ CategoryIs("terminal_protocol_leak", TRUE)

BothSnapshotsSkipped ==
  /\ pBefore.status = Some("skipped_unsupported_term")
  /\ pAfter.status = Some("skipped_unsupported_term")
  /\ pBefore.decrqm = Some(EmptyDict)
  /\ pAfter.decrqm = Some(EmptyDict)

\* a line of the transcript that tells of an anomaly: a probe that read an
\* unexpected byte or timed out, CTRL_DONE, a leak pattern, a capture error
TranscriptHasAnomalyMarker ==
  \/ EnterByte # Nothing /\ ~EnterByteOk
  \/ TabByte # Nothing /\ ~TabByteOk
  \/ tSession.ctrl \notin {<<>>, CtrlInterruptedLine}
  \/ tSession.extras # <<>>

IsCleanVerdict == vOut.summary.analysis_status = "ok" /\ CategoryIs("none", FALSE)

\* C25 (as stated): when both snapshots have status skipped_unsupported_term and
\* the transcript contains no anomaly marker, the verdict is status ok, category
\* none, suspected = false.
C25_SkippedSnapshotsCleanVerdict ==
  (vOut.done /\ BothSnapshotsSkipped /\ ~TranscriptHasAnomalyMarker) => IsCleanVerdict

\* C25 (amended): when both snapshots have status skipped_unsupported_term, the
\* transcript contains no anomaly marker and shows the three probes succeeding,
\* and the stty reports show no line-discipline leak, the verdict is status ok,
\* category none, suspected = false.
C25_SkippedSnapshotsCleanRun ==
  (/\ vOut.done
   /\ BothSnapshotsSkipped
   /\ ~TranscriptHasAnomalyMarker
   /\ EnterByteOk /\ TabByteOk /\ CtrlProbeOk
   /\ ~ReportsShowLeak) => IsCleanVerdict

C25_Witness ==
  /\ vOut.done
  /\ BothSnapshotsSkipped
  /\ ~TranscriptHasAnomalyMarker
  /\ EnterByteOk /\ TabByteOk /\ CtrlProbeOk
  /\ ~ReportsShowLeak
  /\ vOut.summary.terminal_protocols.before_status = Some("skipped_unsupported_term")
  /\ vOut.summary.terminal_protocols.modes.changes = <<>>
  /\ IsCleanVerdict

\* the modes a snapshot file holds
ModesIn(snap) == IF snap.decrqm = Nothing THEN {} ELSE DOMAIN snap.decrqm[1]

\* C26: a mode that is present only in the after-snapshot, with state set, is
\* reported as drift with before.state = missing and, when it is one of the
\* suspicious modes, as a suspicious enable; also when the before-snapshot is
\* empty because its capture was skipped, failed or its file is absent.
C26_ModeOnlyAfterIsDrift ==
  pOut.done =>
    \A mode \in ModesIn(pAfter) \ ModesIn(pBefore) :
      pAfter.decrqm[1][mode].state = "set" =>
        \E row \in RowsOf(pOut.diff.modes.changes) :
          /\ row.mode = mode
          /\ row.before = [value |-> Nothing, state |-> "missing"]
          /\ row.after.state = "set"
          /\ mode \in KnownTrackingModes => row \in RowsOf(pOut.diff.modes.suspicious_changes)

\* the rules of the decision order, read from the parts of the summary
RuleLineDiscipline ==
  \E row \in RowsOf(vOut.summary.stty.changes) :
    row.flag \in {<<"i", "s", "i", "g">>, <<"i", "c", "a", "n", "o", "n">>, <<"e", "c", "h", "o">>} /\ row.after = FALSE

RuleProtocolDrift ==
  \/ vOut.summary.terminal_protocols.modes.suspicious_changes # <<>>
  \/ vOut.summary.terminal_protocols.kitty_keyboard.suspicious

RuleProbeOrLeak ==
  \/ vOut.summary.probes.enter_value \notin {Some(<<"0", "d">>), Some(<<"0", "a">>)}
  \/ vOut.summary.probes.tab_value # Some(<<"0", "9">>)
  \/ ~vOut.summary.probes.ctrl_interrupted
  \/ vOut.summary.probes.ctrl_done
  \/ vOut.summary.probes.raw_leak_detected

RuleLooksLikeProtocol ==
  \/ vOut.summary.protocol_signals.caret_csi_count > 0
  \/ vOut.summary.protocol_signals.raw_csi_u_count > 0
  \/ vOut.summary.protocol_signals.raw_focus_toggle_count > 0
  \/ vOut.summary.probes.enter_value \in {Some(<<"1", "b">>), Some(<<"5", "b">>)}
  \/ vOut.summary.probes.tab_value \in {Some(<<"1", "b">>), Some(<<"5", "b">>)}

FirstMatchingCategory ==
  IF RuleLineDiscipline THEN "line_discipline_leak"
  ELSE IF RuleProtocolDrift THEN "terminal_protocol_state_drift"
  ELSE IF RuleProbeOrLeak /\ RuleLooksLikeProtocol THEN "terminal_protocol_leak"
  ELSE IF RuleProbeOrLeak THEN "input_probe_anomaly"
  ELSE "none"

----------------------------------------------------------------------------
\* The reads of flush_pending_input.

\* C28: flush_pending_input performs at most 8 reads and then returns, also
\* when the terminal keeps producing bytes at every read: while the loop is
\* running fewer than 8 reads have returned data, so that the read ahead is
\* at most the eighth, and outside the loop no count is carried on.
C28_FlushAtMostEightReads ==
  /\ pc = "cs_flush" => flushIter + 1 <= FlushIterations
  /\ pc # "cs_flush" => flushIter = 0

\* seven reads have each returned bytes and the eighth is about to be made
C28_Witness ==
  /\ pc = "cs_flush"
  /\ flushIter = FlushIterations - 1
  /\ ioRead

----------------------------------------------------------------------------
\* The mode map and the per-query buffers.

\* the bytes read while the window of query win was open
WindowBuffer(win) == Join([i \in 1..Len(SelectSeq(heard, LAMBDA h : h.win = win)) |-> SelectSeq(heard, LAMBDA h : h.win = win)[i].data])

\* the entries of later over those of earlier
MergeModeMaps(earlier, later) ==
  [k \in DOMAIN earlier \cup DOMAIN later |-> IF k \in DOMAIN later THEN later[k] ELSE earlier[k]]

\* every mode-query buffer up to query n decoded on its own, the maps merged in query order
RECURSIVE DecodedPerBuffer(_)
DecodedPerBuffer(n) ==
  IF n = 0 THEN EmptyDict
  ELSE MergeModeMaps(DecodedPerBuffer(n - 1), parse_decrqm_responses(WindowBuffer(n)))

\* the mode-query buffers up to query n one after the other
RECURSIVE ModeBuffersJoined(_)
ModeBuffersJoined(n) == IF n = 0 THEN <<>> ELSE ModeBuffersJoined(n - 1) \o WindowBuffer(n)

\* C29 as amended: the mode map of a snapshot equals the result of decoding
\* the mode-query buffers joined in query order as one buffer; it holds
\* every response that lies inside one query's buffer and also a response
\* whose bytes are spread over the buffers of consecutive mode queries.
C29_ModeMapOfJoinedBuffers ==
  snapshot.status = "ok" =>
    /\ snapshot.by_mode = parse_decrqm_responses(ModeBuffersJoined(Len(modes)))
    /\ DOMAIN DecodedPerBuffer(Len(modes)) \subseteq DOMAIN snapshot.by_mode

\* a report whose first half was read in the window of the first mode query
\* and whose second half in the window of the second is in the mode map
C29_Witness ==
  /\ snapshot.status = "ok"
  /\ Len(modes) = 2
  /\ WindowBuffer(1) = <<"ESC", "[", "?", "1", ";">>
  /\ WindowBuffer(2) = <<"2", "$", "y">>
  /\ DOMAIN snapshot.by_mode = {<<"1">>}
  /\ DecodedPerBuffer(Len(modes)) = EmptyDict

\* C29 as stated: the mode map of a snapshot equals the result of decoding
\* each per-query buffer on its own and merging the decoded maps in query
\* order, so that a response is recorded only if it lies entirely inside
\* one query's buffer.
C29_ModeMapOfPerBufferDecoding ==
  snapshot.status = "ok" => snapshot.by_mode = DecodedPerBuffer(Len(modes))

----------------------------------------------------------------------------
\* How long a read window stays open.

\* C30: the read window of a query closes as soon as either the per-query
\* timeout has elapsed or no further bytes arrive from the terminal: an open
\* window is never past its deadline, and a window in which the terminal
\* has answered is not one that lasted until its deadline.
C30_AnsweredWindowClosesEarly ==
  /\ pc = "cs_read" => now <= deadline
  /\ lastClose.why = "timeout" => WindowBuffer(lastClose.idx) = <<>>

----------------------------------------------------------------------------
\* The rows of the protocol diff.

\* what a snapshot says of a mode: its decoded value and state, or value
\* None and state missing for a mode it does not hold
DecodedIn(snap, mode) ==
  IF mode \in ModesIn(snap) THEN NormalizeEntry(snap.decrqm[1][mode]) ELSE [value |-> Nothing, state |-> "missing"]

\* the decoded value or the decoded state of the mode differs between before and after
DiffersBetweenSnapshots(mode) ==
  \/ DecodedIn(pBefore, mode).value # DecodedIn(pAfter, mode).value
  \/ DecodedIn(pBefore, mode).state # DecodedIn(pAfter, mode).state

\* the positions of the change rows of a mode
RowsFor(mode) == {i \in DOMAIN pOut.diff.modes.changes : pOut.diff.modes.changes[i].mode = mode}

----------------------------------------------------------------------------
\* The suspected flag and the category of a verdict.

\* C32: in every verdict the suspected flag and the category agree: status
\* ok implies that suspected is a boolean and is false exactly when the
\* category is none; status inconclusive_probe_timeout implies category
\* probe_timeout and suspected None; status inconclusive_capture_error
\* implies category None, suspected None and empty evidence.
C32_SuspectedAndCategoryAgree ==
  vOut.done =>
    /\ vOut.summary.analysis_status = "ok" =>
         /\ vOut.summary.tty_pollution_suspected \in {Some(TRUE), Some(FALSE)}
         /\ vOut.summary.suspected_category # Nothing
         /\ vOut.summary.tty_pollution_suspected = Some(FALSE) <=> vOut.summary.suspected_category = Some("none")
    /\ vOut.summary.analysis_status = "inconclusive_probe_timeout" =>
         /\ vOut.summary.suspected_category = Some("probe_timeout")
         /\ vOut.summary.tty_pollution_suspected = Nothing
    /\ vOut.summary.analysis_status = "inconclusive_capture_error" =>
         /\ vOut.summary.suspected_category = Nothing
         /\ vOut.summary.tty_pollution_suspected = Nothing
         /\ vOut.summary.evidence = <<>>

\* the three probes succeeded and the transcript is clean, and the verdict
\* is suspected with a category because the alternate screen was left on
C32_Witness ==
  /\ vOut.done
  /\ EnterByteOk /\ TabByteOk /\ CtrlProbeOk
  /\ tSession.extras = <<>>
  /\ ~ReportsShowLeak
  /\ SnapshotsShowSuspiciousEnable
  /\ vOut.summary.analysis_status = "ok"
  /\ CategoryIs("terminal_protocol_state_drift", TRUE)

----------------------------------------------------------------------------
\* What a clean verdict rests on.

\* neither capture error nor timed-out probe: the verdict has status ok
NothingInconclusive ==
  /\ ~HasCaptureErrorLine
  /\ EnterByte # Some(TimeoutWord)
  /\ TabByte # Some(TimeoutWord)

\* C33: a clean verdict (status ok, category none, suspected = false) is
\* produced only if the transcript positively shows all three probes
\* succeeding: Enter probe value 0d or 0a, Tab probe value 09, and the
\* CTRL_INTERRUPTED marker present with the CTRL_DONE marker absent; an
\* absent probe marker or a failed Ctrl-C probe alone, with no capture error
\* and no timed-out probe, makes the verdict status ok with suspected = true.
C33_CleanOnlyWithThreeProbesShown ==
  vOut.done =>
    /\ IsCleanVerdict =>
         /\ EnterByte \in {Some(<<"0", "d">>), Some(<<"0", "a">>)}
         /\ TabByte = Some(<<"0", "9">>)
         /\ Contains(SessionText(tSession), CtrlInterruptedLine)
         /\ ~Contains(SessionText(tSession), CtrlDoneLine)
    /\ (NothingInconclusive /\ (EnterByte = Nothing \/ TabByte = Nothing \/ ~CtrlProbeOk)) =>
         /\ vOut.summary.analysis_status = "ok"
         /\ vOut.summary.tty_pollution_suspected = Some(TRUE)

\* a run whose only flaw is that the Ctrl-C probe ran to its end: the Enter
\* probe read a line feed, nothing drifted, and the verdict is suspected
C33_Witness ==
  /\ vOut.done
  /\ EnterByte = Some(<<"0", "a">>)
  /\ TabByteOk
  /\ Contains(SessionText(tSession), CtrlDoneLine)
  /\ tSession.extras = <<>>
  /\ ~ReportsShowLeak
  /\ ~SnapshotsShowSuspiciousEnable
  /\ ~SnapshotsShowKeyboardLeftOn
  /\ CategoryIs("input_probe_anomaly", TRUE)

----------------------------------------------------------------------------
\* The raw-leak pattern and the caret-CSI count.

\* C34: whenever the transcript contains a raw-leak pattern (^[[A, ^[[B,
\* ^[[C or ^[[D) the pattern is detected and the caret-CSI fragment count is
\* non-zero, so a verdict that reaches the heuristic branch with a raw-leak
\* pattern is always terminal_protocol_leak and never input_probe_anomaly.
C34_RawLeakIsProtocolLeak ==
  (vOut.done /\ HasExtra(RawLeakLine)) =>
    /\ vOut.summary.probes.raw_leak_detected
    /\ vOut.summary.protocol_signals.caret_csi_count > 0
    /\ vOut.summary.suspected_category # Some("input_probe_anomaly")
    /\ HeuristicsDecide => CategoryIs("terminal_protocol_leak", TRUE)

\* the three probes succeeded, nothing drifted, and an echoed arrow key in
\* the transcript alone makes the verdict a protocol leak
C34_Witness ==
  /\ HeuristicsDecide
  /\ EnterByteOk /\ TabByteOk /\ CtrlProbeOk
  /\ tSession.extras = <<RawLeakLine>>
  /\ vOut.summary.protocol_signals.caret_csi_count = 1
  /\ CategoryIs("terminal_protocol_leak", TRUE)

----------------------------------------------------------------------------
\* Which window a response is attributed to.

\* C35: responses are attributed by the window they arrive in: the mode map
\* is decoded only from the bytes read during the mode-query windows and the
\* keyboard state only from the bytes read during the keyboard-query window,
\* so a mode report that arrives during the keyboard window is not in
\* by_mode and a keyboard response that arrives during a mode window is not
\* in the keyboard state, while a mode report read whole in the window of any
\* mode query is recorded under its own mode number.
C35_AttributedByWindow ==
  snapshot.status = "ok" =>
    /\ snapshot.by_mode = parse_decrqm_responses(ModeBuffersJoined(Len(modes)))
    /\ snapshot.responses = parse_kitty_response(WindowBuffer(Len(modes) + 1)).responses
    /\ snapshot.current = parse_kitty_response(WindowBuffer(Len(modes) + 1)).current
    /\ ModeBuffersJoined(Len(modes)) = <<>> => snapshot.by_mode = EmptyDict
    /\ WindowBuffer(Len(modes) + 1) = <<>> => snapshot.responses = <<>> /\ snapshot.current = Nothing
    /\ \A win \in 1..Len(modes) :
         \A mode \in DOMAIN parse_decrqm_responses(WindowBuffer(win)) : mode \in DOMAIN snapshot.by_mode

\* a report of mode 1 read whole in the window of the query about mode 2,
\* the window of the query about mode 1 staying empty: it is recorded, and
\* under mode 1
C35_Witness ==
  /\ snapshot.status = "ok"
  /\ modes = <<2, 1>>
  /\ WindowBuffer(1) = <<"ESC", "[", "?", "1", ";", "2", "$", "y">>
  /\ WindowBuffer(2) = <<>>
  /\ DOMAIN snapshot.by_mode = {<<"1">>}
  /\ snapshot.by_mode[<<"1">>].state = "reset"

----------------------------------------------------------------------------
\* The capture run against a terminal that stays connected and whose answers
\* pass through the input queue of the tty: an answer lies in the queue from
\* the moment the terminal produces it until a read of the capture takes it.
\* No read returns b"", which a tty does only after a hangup.

\* how many of the queries are on the wire whole
QueriesWritten == Cardinality({k \in 1..(Len(modes) + 1) : IsPrefix(AllQueries(k), wire)})

\* what the terminal answers to query k: a report that the mode is reset, or the keyboard-protocol flags
Answer(k) == IF IsModeWindow(k) THEN Report(StrOf(modes[k]), <<"2">>) ELSE <<"ESC", "[", "?", "1", "u">>

InitQueue ==
  /\ InitMain
  /\ argModes \in {<<"1">>, <<" ", "2", " ", ",", ",", "0", "1">>}
  /\ envTerm = <<"x", "t", "e", "r", "m">>
  /\ readIsTty
  /\ writeIsTty

\* the terminal produces its answer to the next query it has received, while the capture is under way
TermAnswers ==
  /\ pc \in InsideCapture
  /\ delivered < QueriesWritten
  /\ unread' = Append(unread, Answer(delivered + 1))
  /\ delivered' = delivered + 1
  /\ UNCHANGED <<inputVars, driverVars, heard, codecVars, analyzeVars, termAttr, fdNonblock, wire, ioRead, now, stalls, shortWrites, codeVars>>

\* nothing is in the queue: select returns nothing and the loop goes on
QueueWait ==
  /\ unread = <<>>
  /\ ReadWait

\* select reports the descriptor readable and os.read(fd, 4096) takes what is in the queue: chunks.append(data)
QueueRead ==
  /\ pc = "cs_read"
  /\ deadline - now > 0
  /\ unread # <<>>
  /\ chunks' = Append(chunks, Join(unread))
  /\ heard' = Append(heard, [win |-> idx, data |-> Join(unread)])
  /\ unread' = <<>>
  /\ ioRead' = TRUE
  /\ UNCHANGED <<inputVars, driverVars, codecVars, analyzeVars, termAttr, fdNonblock, wire, now, stalls, shortWrites, delivered, pc, modes, old_term, old_flags, flushIter, idx, offset, deadline, winOpenedAt, windowsClosed, lastClose, decrqm_chunks, kitty_chunks, pending, snapshot, output, exitCode>>

NextQueue ==
  \/ ParseModes \/ CheckTerm \/ CsIsatty \/ CsSave \/ CsSetRaw \/ CsNonblock \/ CsFlush
  \/ SendWrite \/ SendStall \/ SendFail
  \/ TermAnswers
  \/ ReadTimeout \/ QueueWait \/ QueueRead \/ ReadFail
  \/ FinAttr \/ FinFlags \/ CsResult \/ MainExcept \/ WriteDoc \/ Return

SpecQueue == InitQueue /\ [][NextQueue]_vars

\* capture_snapshot has returned its result with the terminal settings as they were at the start
ReturnedRestored ==
  /\ pc \in {"write_doc", "main_return", "exited"}
  /\ snapshot.status = "ok"
  /\ termAttr = entryAttr
  /\ fdNonblock = entryNonblock

\* C36: when capture_snapshot returns and the terminal settings are
\* restored, every response byte the terminal produced for the queries has
\* been consumed by the capture: no query response is left unread in the
\* terminal input queue for the next reader of the tty.
C36_NoResponseLeftUnread ==
  ReturnedRestored => unread = <<>>

\* ---------------------------------------------------------------------------
\* issue26-macos-keydriver.py: the probe loop of main().  The runner writes its
\* markers to the session file while the driver polls the file and injects
\* the probe keys.
\* ---------------------------------------------------------------------------

MaxRetries == 3

MaxProbeTimeout == 1

EnterValue == "__ISSUE26_ENTER_PROBE__0d__"

TabValue == "__ISSUE26_TAB_PROBE__09__"

RunnerDone == "__ISSUE26_RUNNER_DONE__"

marker_steps ==
  << [probe_name |-> "ENTER", marker |-> "__ISSUE26_ENTER_WAIT__", key_name |-> "ENTER"],
     [probe_name |-> "TAB", marker |-> "__ISSUE26_TAB_WAIT__", key_name |-> "TAB"],
     [probe_name |-> "CTRL", marker |-> "__ISSUE26_CTRL_WAIT__", key_name |-> "CTRL_C"] >>

\* the keys of PROBE_VALUE_PATTERNS
PROBE_VALUE_PATTERNS == {"ENTER", "TAB"}

\* what the runner writes to the session file
RunnerMarkers ==
  {marker_steps[k].marker : k \in 1..3} \cup {EnterValue, TabValue, RunnerDone}

\* extract_probe_value(session_file, probe_name) is not None
extract_probe_value(session, probe_name) ==
  CASE probe_name = "ENTER" -> EnterValue \in session
    [] probe_name = "TAB" -> TabValue \in session
    [] OTHER -> FALSE

\* send_key_event(key_name, mode, tty_path): the backend that delivered the
\* key, or "raise"; tty_works and applescript_works say whether the write to
\* the tty and the osascript call succeed this time
send_key_event(mode, tty_path, tty_works, applescript_works) ==
  IF mode \in {"tty", "hybrid"} /\ tty_path /\ tty_works THEN "tty"
  ELSE IF mode = "tty" THEN "raise"
  ELSE IF mode \in {"applescript", "hybrid"} /\ applescript_works THEN "applescript"
  ELSE "raise"

backend_order(inject_mode, tty_path) ==
  IF inject_mode = "hybrid"
  THEN IF tty_path THEN <<"tty", "applescript">> ELSE <<"applescript">>
  ELSE <<inject_mode>>

Max2(a, b) == IF a >= b THEN a ELSE b

Min2(a, b) == IF a <= b THEN a ELSE b

max_sends(retries, order) == Min2(Max2(1, retries), Len(order))

\* the fallback of a failed send inside an attempt: the backend that
\* delivered the key, or "raise"
AttemptBackend(inject_mode, attempt_mode, tty_path, tty_works, applescript_works) ==
  IF send_key_event(attempt_mode, tty_path, tty_works, applescript_works) # "raise"
  THEN send_key_event(attempt_mode, tty_path, tty_works, applescript_works)
  ELSE IF inject_mode = "hybrid" /\ attempt_mode = "tty"
       THEN send_key_event("applescript", tty_path, tty_works, applescript_works)
       ELSE "raise"

\* wait_for_marker returns True: a poll before the deadline finds the marker
MarkerSeenUnread(session, marker, timeout_seconds) == TRUE

MarkerSeen(session, marker, timeout_seconds) ==
  timeout_seconds > 0 /\ marker \in session

InitKeys ==
  /\ kArgs \in [probe_inject_mode : {"applescript", "tty", "hybrid"},
                tty_path : BOOLEAN,
                probe_send_retries : 0..MaxRetries,
                probe_timeout : 0..MaxProbeTimeout]
  /\ kPc = "main"
  /\ kStep = 1
  /\ kAttempt = 1
  /\ kSession = {}
  /\ kSent = <<>>
  /\ kExit = -1
  /\ PtyIdle
  /\ MainIdle("keydriver")
  /\ CodecIdle
  /\ AnalyzeIdle

KeyOthers == <<inputVars, ttyVars, queueVars, codeVars, codecVars, analyzeVars, ptyVars>>

\* the runner appends a marker to the session file
RunnerWrites ==
  /\ kPc \notin {"idle", "returned"}
  /\ \E m \in RunnerMarkers \ kSession : kSession' = kSession \cup {m}
  /\ UNCHANGED <<kArgs, kPc, kStep, kAttempt, kSent, kExit, KeyOthers>>

\* main up to the probe loop: runner start, activation, warmup and the repro
\* sequence, each of which can end the run with its own code
Prelude ==
  /\ kPc = "main"
  /\ \E code \in {0, 10, 20, 25, 26, 27, 30} :
       IF code = 0
       THEN kPc' = "wait_marker" /\ kExit' = kExit
       ELSE kPc' = "returned" /\ kExit' = code
  /\ UNCHANGED <<kArgs, kStep, kAttempt, kSession, kSent, KeyOthers>>

\* wait_for_marker(session_file, marker, args.probe_timeout) returns True
WaitSeen ==
  /\ kPc = "wait_marker"
  /\ MarkerSeen(kSession, marker_steps[kStep].marker, kArgs.probe_timeout)
  /\ kPc' = "send_probe"
  /\ kAttempt' = 1
  /\ UNCHANGED <<kArgs, kStep, kSession, kSent, kExit, KeyOthers>>

\* ... returns False: return 40
WaitTimeout ==
  /\ kPc = "wait_marker"
  /\ ~MarkerSeen(kSession, marker_steps[kStep].marker, kArgs.probe_timeout)
  /\ kPc' = "returned"
  /\ kExit' = 40
  /\ UNCHANGED <<kArgs, kStep, kAttempt, kSession, kSent, KeyOthers>>

\* send_probe_with_confirmation has returned: the next marker step
PcAfterProbe(step) == IF step = Len(marker_steps) THEN "wait_done" ELSE "wait_marker"

KeyEvent(step, backend, attempt) ==
  [probe |-> marker_steps[step].probe_name, key |-> marker_steps[step].key_name,
   backend |-> backend, attempt |-> attempt]

\* a probe without a value pattern: one send_key_event in the inject mode
SendOnce ==
  /\ kPc = "send_probe"
  /\ marker_steps[kStep].probe_name \notin PROBE_VALUE_PATTERNS
  /\ \E tty_works \in BOOLEAN, applescript_works \in BOOLEAN :
       IF send_key_event(kArgs.probe_inject_mode, kArgs.tty_path, tty_works, applescript_works) = "raise"
       THEN /\ kPc' = "returned"
            /\ kExit' = 50
            /\ UNCHANGED <<kStep, kSent>>
       ELSE /\ kSent' = Append(kSent, KeyEvent(kStep, send_key_event(kArgs.probe_inject_mode, kArgs.tty_path, tty_works, applescript_works), 1))
            /\ kPc' = PcAfterProbe(kStep)
            /\ kStep' = kStep + 1
            /\ kExit' = kExit
  /\ UNCHANGED <<kArgs, kAttempt, kSession, KeyOthers>>

\* the send loop is over, or the value is already in the session file
AttemptReturn ==
  /\ kPc = "send_probe"
  /\ marker_steps[kStep].probe_name \in PROBE_VALUE_PATTERNS
  /\ \/ kAttempt > max_sends(kArgs.probe_send_retries, backend_order(kArgs.probe_inject_mode, kArgs.tty_path))
     \/ extract_probe_value(kSession, marker_steps[kStep].probe_name)
  /\ kPc' = PcAfterProbe(kStep)
  /\ kStep' = kStep + 1
  /\ UNCHANGED <<kArgs, kAttempt, kSession, kSent, kExit, KeyOthers>>

\* one attempt: the key goes out through backend_order[attempt - 1], or
\* through applescript when the tty send of the hybrid mode raised
AttemptSend ==
  /\ kPc = "send_probe"
  /\ marker_steps[kStep].probe_name \in PROBE_VALUE_PATTERNS
  /\ kAttempt <= max_sends(kArgs.probe_send_retries, backend_order(kArgs.probe_inject_mode, kArgs.tty_path))
  /\ ~extract_probe_value(kSession, marker_steps[kStep].probe_name)
  /\ \E tty_works \in BOOLEAN, applescript_works \in BOOLEAN :
       IF AttemptBackend(kArgs.probe_inject_mode, backend_order(kArgs.probe_inject_mode, kArgs.tty_path)[kAttempt], kArgs.tty_path, tty_works, applescript_works) = "raise"
       THEN /\ kPc' = "returned"
            /\ kExit' = 50
            /\ kSent' = kSent
       ELSE /\ kSent' = Append(kSent, KeyEvent(kStep, AttemptBackend(kArgs.probe_inject_mode, backend_order(kArgs.probe_inject_mode, kArgs.tty_path)[kAttempt], kArgs.tty_path, tty_works, applescript_works), kAttempt))
            /\ kPc' = "confirm"
            /\ kExit' = kExit
  /\ UNCHANGED <<kArgs, kStep, kAttempt, kSession, KeyOthers>>

\* the confirm window: the value is observed
ConfirmObserved ==
  /\ kPc = "confirm"
  /\ extract_probe_value(kSession, marker_steps[kStep].probe_name)
  /\ kPc' = PcAfterProbe(kStep)
  /\ kStep' = kStep + 1
  /\ UNCHANGED <<kArgs, kAttempt, kSession, kSent, kExit, KeyOthers>>

\* the confirm window runs out without a value
ConfirmDeadline ==
  /\ kPc = "confirm"
  /\ ~extract_probe_value(kSession, marker_steps[kStep].probe_name)
  /\ kPc' = "send_probe"
  /\ kAttempt' = kAttempt + 1
  /\ UNCHANGED <<kArgs, kStep, kSession, kSent, kExit, KeyOthers>>

\* wait_for_marker(session_file, "__ISSUE26_RUNNER_DONE__", ...): return 0
DoneSeen ==
  /\ kPc = "wait_done"
  /\ MarkerSeen(kSession, RunnerDone, kArgs.probe_timeout)
  /\ kPc' = "returned"
  /\ kExit' = 0
  /\ UNCHANGED <<kArgs, kStep, kAttempt, kSession, kSent, KeyOthers>>

\* ... return 60
DoneTimeout ==
  /\ kPc = "wait_done"
  /\ ~MarkerSeen(kSession, RunnerDone, kArgs.probe_timeout)
  /\ kPc' = "returned"
  /\ kExit' = 60
  /\ UNCHANGED <<kArgs, kStep, kAttempt, kSession, kSent, KeyOthers>>

NextKeys ==
  \/ RunnerWrites
  \/ Prelude
  \/ WaitSeen
  \/ WaitTimeout
  \/ SendOnce
  \/ AttemptReturn
  \/ AttemptSend
  \/ ConfirmObserved
  \/ ConfirmDeadline
  \/ DoneSeen
  \/ DoneTimeout

SpecKeys == InitKeys /\ [][NextKeys]_vars

\* the key events of a probe, and those that went through one backend
EventsOf(probe_name) == {i \in 1..Len(kSent) : kSent[i].probe = probe_name}

EventsThrough(probe_name, backend) ==
  {i \in EventsOf(probe_name) : kSent[i].backend = backend}

Backends == {"tty", "applescript"}

\* C37: send_probe_with_confirmation does not flood the probe window: no
\* backend delivers more than one key event of an Enter or Tab probe, also
\* when the tty backend fails in hybrid mode.
C37_OneKeyPerBackend ==
  \A p \in PROBE_VALUE_PATTERNS :
    \A b \in Backends : Cardinality(EventsThrough(p, b)) <= 1

\* the index of a probe in marker_steps
StepOf(probe_name) == CHOOSE k \in 1..Len(marker_steps) : marker_steps[k].probe_name = probe_name

\* C38: the probe keys go out in the order Enter, Tab, Ctrl-C, each only
\* after its WAIT marker is in the session file; a run that returned 40 has
\* sent no key of the probe it waited for nor of a later one; a run that
\* returned 0 has seen the RUNNER_DONE marker.
C38_ProbeKeysFollowMarkers ==
  /\ \A i \in 1..Len(kSent) :
       /\ kSent[i].key = marker_steps[StepOf(kSent[i].probe)].key_name
       /\ marker_steps[StepOf(kSent[i].probe)].marker \in kSession
       /\ \A j \in 1..Len(kSent) : i < j => StepOf(kSent[i].probe) <= StepOf(kSent[j].probe)
  /\ kExit = 40 => \A i \in 1..Len(kSent) : StepOf(kSent[i].probe) < kStep
  /\ kExit = 0 => RunnerDone \in kSession

C38_Witness ==
  /\ kExit = 0
  /\ \A k \in 1..Len(marker_steps) : EventsOf(marker_steps[k].probe_name) # {}

\* ---------------------------------------------------------------------------
\* issue26-pty-probe.py: PtyRunner and run_scenario.  The child runs the
\* runner script in the PTY; run_scenario sends the scenario steps and the
\* probe keys, reads the markers and accounts for the child at the end.
\* ---------------------------------------------------------------------------

DrainReads == 10

MaxTimeouts == 1

SCENARIOS ==
  [english_normal_exit |->
     << [type |-> "line", text |-> "/profile load synthetic", submit_keys |-> <<"Escape", "Enter">>],
        [type |-> "line", text |-> "hi", submit_keys |-> <<"Enter">>],
        [type |-> "line", text |-> "/quit", submit_keys |-> <<"Escape", "Enter">>],
        [type |-> "key", text |-> "C-c", submit_keys |-> <<>>],
        [type |-> "key", text |-> "C-c", submit_keys |-> <<>>] >>,
   chinese_input_interrupt |->
     << [type |-> "line", text |-> "/profile load synthetic", submit_keys |-> <<"Escape", "Enter">>],
        [type |-> "line", text |-> "ce shi", submit_keys |-> <<"Enter">>],
        [type |-> "text", text |-> "nihao", submit_keys |-> <<>>],
        [type |-> "key", text |-> "C-c", submit_keys |-> <<>>],
        [type |-> "line", text |-> "/quit", submit_keys |-> <<"Escape", "Enter">>],
        [type |-> "key", text |-> "C-c", submit_keys |-> <<>>],
        [type |-> "key", text |-> "C-c", submit_keys |-> <<>>] >>]

steps == SCENARIOS[rScenario]

\* the markers of the runner script, in the order the script prints them
RunnerTokens ==
  << "__PTY_READY__", "__PTY_CLI_EXITED__", "__PTY_ENTER_WAIT__", "__PTY_ENTER_RESULT__",
     "__PTY_TAB_WAIT__", "__PTY_TAB_RESULT__", "__PTY_CTRL_WAIT__", "__PTY_CTRL_DONE__",
     "__PTY_CTRL_INTERRUPTED__", "__PTY_DONE__" >>

TokenIndex(token) == CHOOSE k \in 1..Len(RunnerTokens) : RunnerTokens[k] = token

\* what the child can print next: the marker that follows the last one
\* printed, of CTRL_DONE and CTRL_INTERRUPTED one only
LastPrinted(transcript) ==
  IF transcript = {} THEN 0
  ELSE CHOOSE n \in 1..Len(RunnerTokens) :
         RunnerTokens[n] \in transcript /\ \A t \in transcript : TokenIndex(t) <= n

NextTokens(transcript) ==
  CASE LastPrinted(transcript) = TokenIndex("__PTY_CTRL_WAIT__") ->
         {"__PTY_CTRL_DONE__", "__PTY_CTRL_INTERRUPTED__"}
    [] LastPrinted(transcript) = TokenIndex("__PTY_CTRL_DONE__") -> {"__PTY_DONE__"}
    [] LastPrinted(transcript) = Len(RunnerTokens) -> {}
    [] OTHER -> {RunnerTokens[LastPrinted(transcript) + 1]}

\* the entries of errors
Timeout(awaited) == [kind |-> "timeout waiting for", what |-> awaited]

SendFailed(sent) == [kind |-> "failed to send", what |-> sent]

NoError == [kind |-> "", what |-> ""]

\* run_scenario after the steps: the reads and the probe keys in order
ProbeSequence ==
  << [op |-> "until", tokens |-> {"__PTY_CLI_EXITED__"}, error |-> Timeout("__PTY_CLI_EXITED__")],
     [op |-> "until", tokens |-> {"__PTY_ENTER_WAIT__"}, error |-> Timeout("__PTY_ENTER_WAIT__")],
     [op |-> "key", tokens |-> {"Enter"}, error |-> SendFailed("Enter probe key")],
     [op |-> "until", tokens |-> {"__PTY_ENTER_RESULT__"}, error |-> Timeout("__PTY_ENTER_RESULT__")],
     [op |-> "until", tokens |-> {"__PTY_TAB_WAIT__"}, error |-> Timeout("__PTY_TAB_WAIT__")],
     [op |-> "key", tokens |-> {"Tab"}, error |-> SendFailed("Tab probe key")],
     [op |-> "until", tokens |-> {"__PTY_TAB_RESULT__"}, error |-> Timeout("__PTY_TAB_RESULT__")],
     [op |-> "until", tokens |-> {"__PTY_CTRL_WAIT__"}, error |-> Timeout("__PTY_CTRL_WAIT__")],
     [op |-> "key", tokens |-> {"C-c"}, error |-> SendFailed("Ctrl-C probe key")],
     [op |-> "until", tokens |-> {"__PTY_CTRL_DONE__", "__PTY_CTRL_INTERRUPTED__", "__PTY_DONE__"},
      error |-> Timeout("__PTY_CTRL_DONE__ / __PTY_CTRL_INTERRUPTED__ / __PTY_DONE__")],
     [op |-> "until", tokens |-> {"__PTY_DONE__"}, error |-> NoError] >>

\* PtyRunner.read_once: the transcripts and closed flags it can leave
\* behind: nothing readable, a chunk with the child's next marker, or a
\* failed os.read
read_once(transcript, closed) ==
  {[transcript |-> transcript, closed |-> closed, chunk |-> FALSE],
   [transcript |-> transcript, closed |-> TRUE, chunk |-> FALSE]}
  \cup {[transcript |-> transcript \cup {t}, closed |-> closed, chunk |-> TRUE] : t \in NextTokens(transcript)}

\* PtyRunner.send_bytes: ok is the value returned, called_write whether
\* os.write was called on the descriptor, closed the flag afterwards
send_bytes_unguarded(closed, write_fails) ==
  [ok |-> ~write_fails, called_write |-> TRUE, closed |-> closed /\ write_fails]

send_bytes(closed, write_fails) ==
  IF closed THEN [ok |-> FALSE, called_write |-> FALSE, closed |-> TRUE]
  ELSE IF write_fails THEN [ok |-> FALSE, called_write |-> TRUE, closed |-> TRUE]
  ELSE [ok |-> TRUE, called_write |-> TRUE, closed |-> FALSE]

\* the record of one send_bytes call
SendEvent(phase, payload, closed, write_fails) ==
  [phase |-> phase, payload |-> payload, closed_before |-> closed,
   called_write |-> send_bytes(closed, write_fails).called_write,
   ok |-> send_bytes(closed, write_fails).ok]

\* the payload a step sends at position key: the text or key of the step,
\* then the submit keys of a line step
PayloadAt(step, key) == IF key = 0 THEN step.text ELSE step.submit_keys[key]

StepError(step, key) ==
  IF step.type = "line"
  THEN IF key = 0 THEN SendFailed("line text") ELSE SendFailed(step.submit_keys[key])
  ELSE IF step.type = "text" THEN SendFailed("text step")
  ELSE SendFailed(step.text)

ProbesStart == [step |-> 1, key |-> 0]

InitPty ==
  /\ rScenario \in DOMAIN SCENARIOS
  /\ rPc = "ready"
  /\ rStep = [step |-> 1, key |-> 0]
  /\ rClosed = FALSE
  /\ rTranscript = {}
  /\ rErrors = <<>>
  /\ rSends = <<>>
  /\ rChild = "running"
  /\ rExit = Nothing
  /\ rResult = "none"
  /\ KeyIdle
  /\ MainIdle("pty")
  /\ CodecIdle
  /\ AnalyzeIdle

PtyOthers == <<inputVars, ttyVars, queueVars, codeVars, codecVars, analyzeVars, keyVars>>

\* a read_until or read_until_any is in progress
Reading ==
  \/ rPc = "ready"
  \/ rPc = "probes" /\ ProbeSequence[rStep.step].op = "until"

AwaitedTokens == IF rPc = "ready" THEN {"__PTY_READY__"} ELSE ProbeSequence[rStep.step].tokens

AwaitError == IF rPc = "ready" THEN Timeout("__PTY_READY__") ELSE ProbeSequence[rStep.step].error

\* where the code goes after the read or the key of the probe sequence
PcAfter == IF rPc = "ready" THEN "steps" ELSE IF rStep.step = Len(ProbeSequence) THEN "drain" ELSE "probes"

StepAfter == IF rPc = "ready" THEN rStep ELSE IF rStep.step = Len(ProbeSequence) THEN ProbesStart ELSE [step |-> rStep.step + 1, key |-> 0]

\* the reads that ran into their timeout so far
Timeouts == Cardinality({i \in 1..Len(rErrors) : rErrors[i].kind = "timeout waiting for"})

\* read_until: one poll of the loop, the awaited token not in the transcript
UntilPoll ==
  /\ Reading
  /\ AwaitedTokens \cap rTranscript = {}
  /\ \E r \in read_once(rTranscript, rClosed) :
       /\ rTranscript' = r.transcript
       /\ rClosed' = r.closed
  /\ UNCHANGED <<rScenario, rPc, rStep, rErrors, rSends, rChild, rExit, rResult, PtyOthers>>

\* read_until returns True
UntilFound ==
  /\ Reading
  /\ AwaitedTokens \cap rTranscript # {}
  /\ rPc' = PcAfter
  /\ rStep' = StepAfter
  /\ UNCHANGED <<rScenario, rClosed, rTranscript, rErrors, rSends, rChild, rExit, rResult, PtyOthers>>

\* read_until returns False at its timeout
UntilTimeout ==
  /\ Reading
  /\ AwaitedTokens \cap rTranscript = {}
  /\ AwaitError = NoError \/ Timeouts < MaxTimeouts
  /\ rErrors' = IF AwaitError = NoError THEN rErrors ELSE Append(rErrors, AwaitError)
  /\ rPc' = PcAfter
  /\ rStep' = StepAfter
  /\ UNCHANGED <<rScenario, rClosed, rTranscript, rSends, rChild, rExit, rResult, PtyOthers>>

\* a send of a scenario step: the text or key of the step, or a submit key
StepSend ==
  /\ rPc = "steps"
  /\ steps[rStep.step].type \in {"line", "text", "key"}
  /\ \E write_fails \in BOOLEAN :
       /\ rSends' = Append(rSends, SendEvent("step", PayloadAt(steps[rStep.step], rStep.key), rClosed, write_fails))
       /\ rClosed' = send_bytes(rClosed, write_fails).closed
       /\ IF send_bytes(rClosed, write_fails).ok
          THEN /\ rErrors' = rErrors
               /\ IF rStep.key < Len(steps[rStep.step].submit_keys)
                  THEN rPc' = rPc /\ rStep' = [rStep EXCEPT !.key = rStep.key + 1]
                  ELSE rPc' = "step_read" /\ rStep' = rStep
          ELSE /\ rErrors' = Append(rErrors, StepError(steps[rStep.step], rStep.key))
               /\ rPc' = "probes"
               /\ rStep' = ProbesStart
  /\ UNCHANGED <<rScenario, rTranscript, rChild, rExit, rResult, PtyOthers>>

\* the sleep and the read_once that end a step
StepRead ==
  /\ rPc = "step_read"
  /\ \E r \in read_once(rTranscript, rClosed) :
       /\ rTranscript' = r.transcript
       /\ rClosed' = r.closed
  /\ IF rStep.step = Len(steps)
     THEN rPc' = "probes" /\ rStep' = ProbesStart
     ELSE rPc' = "steps" /\ rStep' = [step |-> rStep.step + 1, key |-> 0]
  /\ UNCHANGED <<rScenario, rErrors, rSends, rChild, rExit, rResult, PtyOthers>>

\* a probe key: Enter, Tab or C-c
ProbeKey ==
  /\ rPc = "probes"
  /\ ProbeSequence[rStep.step].op = "key"
  /\ \E write_fails \in BOOLEAN, key \in ProbeSequence[rStep.step].tokens :
       /\ rSends' = Append(rSends, SendEvent("probe", key, rClosed, write_fails))
       /\ rClosed' = send_bytes(rClosed, write_fails).closed
       /\ rErrors' = IF send_bytes(rClosed, write_fails).ok THEN rErrors
                     ELSE Append(rErrors, ProbeSequence[rStep.step].error)
  /\ rPc' = PcAfter
  /\ rStep' = StepAfter
  /\ UNCHANGED <<rScenario, rTranscript, rChild, rExit, rResult, PtyOthers>>

\* the drain loop: up to ten reads, over at the first empty one
Drain ==
  /\ rPc = "drain"
  /\ \E r \in read_once(rTranscript, rClosed) :
       /\ rTranscript' = r.transcript
       /\ rClosed' = r.closed
       /\ IF r.chunk /\ rStep.key + 1 < DrainReads
          THEN rPc' = rPc /\ rStep' = [rStep EXCEPT !.key = rStep.key + 1] /\ rResult' = rResult
          ELSE rPc' = "finally" /\ rStep' = rStep /\ rResult' = "completed"
  /\ UNCHANGED <<rScenario, rErrors, rSends, rChild, rExit, PtyOthers>>

\* an exception leaves the try block
DriveRaises ==
  /\ rPc \in {"ready", "steps", "step_read", "probes", "drain"}
  /\ rPc' = "finally"
  /\ rResult' = "raising"
  /\ UNCHANGED <<rScenario, rStep, rClosed, rTranscript, rErrors, rSends, rChild, rExit, PtyOthers>>

\* the exit codes wait_for_child_exit makes of a status: exited, signaled
ChildCodes == {0, 1, 130}

\* the exit code after the second wait
exit_code_unset(waited) == waited

exit_code(waited) == IF waited = Nothing THEN Some(137) ELSE waited

PcAfterFinally == IF rResult = "raising" THEN "raised" ELSE "result"

\* finally: wait_for_child_exit(pid, timeout=5)
FinallyWait ==
  /\ rPc = "finally"
  /\ \/ /\ \E code \in ChildCodes : rExit' = Some(code)
        /\ rChild' = "reaped"
        /\ rPc' = PcAfterFinally
     \/ /\ rExit' = Nothing
        /\ rChild' = rChild
        /\ rPc' = "kill"
  /\ UNCHANGED <<rScenario, rStep, rClosed, rTranscript, rErrors, rSends, rResult, PtyOthers>>

\* finally: SIGKILL, wait_for_child_exit(pid, timeout=2), 137 by default
FinallyKill ==
  /\ rPc = "kill"
  /\ \/ /\ \E code \in ChildCodes \cup {137} : rExit' = exit_code(Some(code))
        /\ rChild' = "killed_reaped"
     \/ /\ rExit' = exit_code(Nothing)
        /\ rChild' = "killed_unreaped"
  /\ rPc' = PcAfterFinally
  /\ UNCHANGED <<rScenario, rStep, rClosed, rTranscript, rErrors, rSends, rResult, PtyOthers>>

\* result["status"]
status(errors) == IF errors = <<>> THEN "ok" ELSE "error"

WriteResult ==
  /\ rPc = "result"
  /\ rResult' = status(rErrors)
  /\ rPc' = "returned"
  /\ UNCHANGED <<rScenario, rStep, rClosed, rTranscript, rErrors, rSends, rChild, rExit, PtyOthers>>

NextPty ==
  \/ UntilPoll
  \/ UntilFound
  \/ UntilTimeout
  \/ StepSend
  \/ StepRead
  \/ ProbeKey
  \/ Drain
  \/ DriveRaises
  \/ FinallyWait
  \/ FinallyKill
  \/ WriteResult

SpecPty == InitPty /\ [][NextPty]_vars

\* a send_bytes call that found the flag set returned False and left the
\* descriptor alone, and so did every call after a failed one
ClosedSendsWriteNothing ==
  \A j \in 1..Len(rSends) :
    (rSends[j].closed_before \/ \E i \in 1..(j - 1) : ~rSends[i].ok)
      => ~rSends[j].ok /\ ~rSends[j].called_write

\* no scenario step sends anything after a failed send of a scenario step
FailedStepEndsSteps ==
  \A i \in 1..Len(rSends) : \A j \in (i + 1)..Len(rSends) :
    rSends[i].phase = "step" /\ ~rSends[i].ok => rSends[j].phase # "step"

\* a failed send leaves the flag set and a set flag stays set
ClosedStaysSet ==
  /\ rClosed => rClosed'
  /\ (Len(rSends') > Len(rSends) /\ ~rSends'[Len(rSends')].ok) => rClosed'

\* C39: runner.closed is never cleared once set, a failed write sets it,
\* every send_bytes after that returns False without a write to the
\* descriptor, and the first failed send of a scenario step is the last
\* send of the scenario steps.
C39_ClosedIsFinal ==
  /\ [](ClosedSendsWriteNothing /\ FailedStepEndsSteps)
  /\ [][ClosedStaysSet]_vars

C39_Witness ==
  \E i \in 1..Len(rSends) : \E j \in (i + 1)..Len(rSends) :
    /\ rSends[i].phase = "step" /\ rSends[i].called_write /\ ~rSends[i].ok
    /\ rSends[i].payload = "Escape"
    /\ rSends[j].phase = "probe" /\ rSends[j].closed_before /\ ~rSends[j].ok
    /\ rStep.step < Len(steps)

\* run_scenario is left: it returned the result or an exception propagates
Left == rPc \in {"returned", "raised"}

\* C40: when run_scenario is left, by return or by an exception, the child
\* was waited for, was sent SIGKILL unless the first wait reaped it, and
\* exit_code is set, to 137 when the child was not reaped; the status of a
\* returned result is ok exactly when errors is empty.
C40_ChildAccountedFor ==
  /\ Left => /\ rExit # Nothing
             /\ rChild \in {"reaped", "killed_reaped", "killed_unreaped"}
             /\ rChild = "killed_unreaped" => rExit = Some(137)
  /\ rPc = "returned" => /\ rResult \in {"ok", "error"}
                         /\ rResult = "ok" <=> rErrors = <<>>
  /\ rPc = "raised" => rResult = "raising"

C40_Witness ==
  /\ rPc = "raised"
  /\ rChild = "killed_unreaped"
  /\ rExit = Some(137)
  /\ rErrors # <<>>

====
